---- MODULE Spec2Model ----
(***************************************************************************)
(* State-machine model of the task scheduler of my-scheduler-go:           *)
(*   internal/scheduler/scheduler.go   SchedulerService                    *)
(*   internal/scheduler/executor.go    TaskExecutor (the executor that     *)
(*                                     SchedulerService.executeTask calls) *)
(*   internal/repository/task_repository.go  InMemoryTaskRepository        *)
(*   internal/models (unnamed/part_008)      Task, CanBeExecuted, ...      *)
(*                                                                         *)
(* The store keeps *models.Task pointers and GetTaskByID returns the      *)
(* stored pointer itself, so a task is identified by its ID everywhere:    *)
(* the queue entry, the "taskCopy" of the cron callback and of the timeout *)
(* supervisor and the stored task are one object.                          *)
(*                                                                         *)
(* Every goroutine is a process with a position; one action is one step    *)
(* between two synchronisation points (a repository call, a mutex          *)
(* section).  Time is abstract: whether time.Since(UpdatedAt) exceeds a     *)
(* task's timeout when the supervisor looks is a nondeterministic choice.  *)
(***************************************************************************)
EXTENDS Integers, Sequences, FiniteSets, TLC

VARIABLES
  cfg,            \* the fields of each task that nothing in the scheduler writes
  status,         \* Task.Status of the stored task; "NONE": not in the store
  metaRetry,      \* Task.Metadata["retry_count"] (0 when absent)
  taskQueue,      \* SchedulerService.taskQueue
  runningTasks,   \* SchedulerService.runningTasks (the keys of the map)
  cronJobs,       \* SchedulerService.cronJobs (the keys of the map)
  cronEngine,     \* per task: addScheduledJob calls made, entries in s.cron
  cronFires,      \* number of firings of each task's cron entry so far
  addPc,          \* position of the AddTask call of each task
  pollSnap,       \* pollForNewTasks: the tasks of its snapshot not yet handled
  pollCur,        \* pollForNewTasks: the task whose queueTask call is half done
  cronPc,         \* position of the cron callback of each task
  execs,          \* executeTask goroutines in flight: per task and position
  supSnap,        \* checkTaskTimeouts: the tasks of its snapshot not yet handled
  supCur,         \* checkTaskTimeouts: the task being handled and the position
  sleepers,       \* retry goroutines: per task and position
  attempts,       \* history: executions launched per task
  timeouts,       \* history: timeouts found by the supervisor per task
  requeues,       \* history: retry goroutines started per task
  cycle,          \* history: the last processTaskQueue cycle (input and output)
  hx,             \* the task a caller hands to the handler-based TaskExecutor
  call,           \* one call of a function looked at alone: arguments, result
  stop,           \* SchedulerService.Stop: its position, the queueProcessor
                  \* goroutine, and the tasks in flight at its call and return
  conf            \* the ConfigurationService, the slices on the heap and the
                  \* callers of GetCurrentConfigurations

vars == <<cfg, status, metaRetry, taskQueue, runningTasks, cronJobs, cronEngine,
          cronFires, addPc, pollSnap, pollCur, cronPc, execs, supSnap, supCur,
          sleepers, attempts, timeouts, requeues, cycle, hx, call, stop, conf>>

storeVars == <<status, metaRetry>>
schedVars == <<taskQueue, runningTasks, cronJobs, cronEngine, cronFires>>
procVars  == <<addPc, pollSnap, pollCur, cronPc, execs, supSnap, supCur, sleepers>>
histVars  == <<attempts, timeouts, requeues>>
sideVars  == <<cycle, hx, call, stop, conf>>

-----------------------------------------------------------------------------
(* Bounds of the model *)

\* cron firings of one task's entry that the model follows
MaxFires == 2

\* SchedulerService.maxConcurrency as configured through SetMaxConcurrency
MaxConcurrency == 1

\* largest RetryPolicy.MaxRetries of the tasks whose retries are followed
RetryLimit == 2

-----------------------------------------------------------------------------
(* models: statuses, types, priorities *)

StatusPending   == "PENDING"
StatusQueued    == "QUEUED"
StatusScheduled == "SCHEDULED"
StatusRunning   == "RUNNING"
StatusDone      == "DONE"
StatusFailed    == "FAILED"
StatusTimeout   == "TIMEOUT"
StatusRetry     == "RETRY"
NotStored       == "NONE"

TypeImmediate == "IMMEDIATE"
TypeScheduled == "SCHEDULED"

PriorityHigh   == "HIGH"
PriorityMedium == "MEDIUM"
PriorityLow    == "LOW"

NoTask == "-"

Tasks == {"t1", "t2"}

\* CronExpr: "" (none), an expression cron.AddFunc accepts, one it rejects
CronNone  == ""
CronValid == "*/5 * * * * *"
CronBad   == "bad"

Task(type, cron, prio, deps, timeout, hasPolicy, maxRetries) ==
  [TaskType |-> type, CronExpr |-> cron, Priority |-> prio,
   Dependencies |-> deps, TimeoutSeconds |-> timeout,
   HasRetryPolicy |-> hasPolicy, MaxRetries |-> maxRetries]

-----------------------------------------------------------------------------
(* Pure functions *)

Range(s) == {s[i] : i \in 1..Len(s)}

\* the weights with LOW first and HIGH last
priorityOrderReversed(p) ==
  CASE p = PriorityHigh   -> 2
    [] p = PriorityMedium -> 1
    [] p = PriorityLow    -> 0
    [] OTHER              -> 0

\* the priorityOrder map of processTaskQueue; a key that is not in a Go map
\* reads as the zero value
priorityOrder(p) ==
  CASE p = PriorityHigh   -> 0
    [] p = PriorityMedium -> 1
    [] p = PriorityLow    -> 2
    [] OTHER              -> 0

\* the queue left in the order in which it stands
QueueOrder(c, q) == q

\* sort.SliceStable(s.taskQueue, less) with less(i, j) = weight(i) < weight(j):
\* a stable sort over three weights
SortByPriority(c, q) ==
  LET W(t) == priorityOrder(c[t].Priority)
      W0(t) == W(t) = 0
      W1(t) == W(t) = 1
      W2(t) == W(t) = 2
  IN  SelectSeq(q, W0) \o SelectSeq(q, W1) \o SelectSeq(q, W2)

\* a dependency test that is content with one completed dependency
CanBeExecutedAny(task, completedTaskIDs) ==
  IF Len(task.Dependencies) = 0
  THEN TRUE
  ELSE \E i \in 1..Len(task.Dependencies) :
         task.Dependencies[i] \in completedTaskIDs

\* Task.CanBeExecuted(completedTaskIDs)
CanBeExecuted(task, completedTaskIDs) ==
  IF Len(task.Dependencies) = 0
  THEN TRUE
  ELSE \A i \in 1..Len(task.Dependencies) :
         task.Dependencies[i] \in completedTaskIDs

\* InMemoryTaskRepository.GetTasksByStatus
GetTasksByStatus(st, s) == {t \in DOMAIN st : st[t] = s}

\* InMemoryTaskRepository.GetCompletedTaskIDs
GetCompletedTaskIDs(st) == {t \in DOMAIN st : st[t] = StatusDone}

\* slots counted without looking at the running set
AvailableSlotsIgnoringRunning(maxConcurrency, running) == maxConcurrency

\* availableSlots of processTaskQueue
AvailableSlots(maxConcurrency, running) == maxConcurrency - Cardinality(running)

\* a dispatch loop that stops at the first task it cannot launch
DispatchLoopStoppingAtBlocked(c, q, completedTasks, slots) ==
  LET blocked == {i \in 1..Len(q) : ~CanBeExecuted(c[q[i]], completedTasks)}
      first == IF blocked = {} THEN Len(q) + 1
               ELSE CHOOSE i \in blocked : \A j \in blocked : i <= j
      n == IF first - 1 < slots THEN first - 1 ELSE slots
  IN  [launched |-> SubSeq(q, 1, n), remaining |-> SubSeq(q, n + 1, Len(q))]

\* the dispatch loop of processTaskQueue over the sorted queue: the tasks
\* launched (go s.executeTask(task)), in launch order, and remainingTasks
RECURSIVE DispatchLoop(_, _, _, _)
DispatchLoop(c, q, completedTasks, slots) ==
  IF q = <<>>
  THEN [launched |-> <<>>, remaining |-> <<>>]
  ELSE LET task == Head(q) IN
       IF CanBeExecuted(c[task], completedTasks) /\ slots > 0
       THEN LET r == DispatchLoop(c, Tail(q), completedTasks, slots - 1)
            IN  [launched |-> <<task>> \o r.launched, remaining |-> r.remaining]
       ELSE LET r == DispatchLoop(c, Tail(q), completedTasks, slots)
            IN  [launched |-> r.launched, remaining |-> <<task>> \o r.remaining]

\* a cycle that launches what processTaskQueue launches and keeps nothing
ProcessCycleDroppingRetained(c, q, st, running, maxConcurrency) ==
  LET r == DispatchLoop(c, SortByPriority(c, q), GetCompletedTaskIDs(st),
                        AvailableSlots(maxConcurrency, running))
  IN  [launched |-> r.launched, queue |-> <<>>]

\* one processTaskQueue cycle as a function of what it reads: the queue it
\* leaves and the tasks it launches
ProcessCycle(c, q, st, running, maxConcurrency) ==
  IF Len(q) = 0
  THEN [launched |-> <<>>, queue |-> q]
  ELSE LET sorted == SortByPriority(c, q)
           slots  == AvailableSlots(maxConcurrency, running)
       IN  IF slots <= 0
           THEN [launched |-> <<>>, queue |-> sorted]
           ELSE LET r == DispatchLoop(c, sorted, GetCompletedTaskIDs(st), slots)
                IN  [launched |-> r.launched, queue |-> r.remaining]

\* the cron callback's test "already queued or running"
CronSkips(s) == s = StatusQueued \/ s = StatusRunning

\* checkTaskTimeouts: the task has a retry policy that allows retries at all
HasRetries(task) == task.HasRetryPolicy /\ task.MaxRetries > 0

\* the test with <= in place of <
RetryAllowedInclusive(task, retryCount) == retryCount <= task.MaxRetries

\* checkTaskTimeouts: retryCount < task.RetryPolicy.MaxRetries
RetryAllowed(task, retryCount) == retryCount < task.MaxRetries

\* a supervisor that never takes the retry branch
SupNeverRetries(task, retryCount) == FALSE

\* checkTaskTimeouts: the two tests that lead to the retry branch
SupRetries(task, retryCount) == HasRetries(task) /\ RetryAllowed(task, retryCount)

\* the branch of AddTask and of pollForNewTasks
IsCronTask(task) == task.TaskType = TypeScheduled /\ task.CronExpr # CronNone

-----------------------------------------------------------------------------
(* Shared steps *)

ExecPcs  == {"launched", "registered", "running", "finished"}
SleepPcs == {"sleeping", "append"}

InFlight(t) ==
  execs[t]["launched"] + execs[t]["registered"] + execs[t]["running"]
    + execs[t]["finished"]

\* repo.UpdateTaskStatus(id, newStatus)
UpdateTaskStatus(t, s) == status' = [status EXCEPT ![t] = s]

\* an append without the test for an entry of the same ID
QueueAppendAlways(t) == taskQueue' = Append(taskQueue, t)

\* the locked section of queueTask: append unless already in the queue
QueueAppend(t) ==
  taskQueue' = IF t \in Range(taskQueue) THEN taskQueue ELSE Append(taskQueue, t)

\* an addScheduledJob call that registers whatever cronJobs holds
NeverScheduled(t) == FALSE

\* addScheduledJob: _, exists := s.cronJobs[task.ID]
AlreadyScheduled(t) == t \in cronJobs

\* addScheduledJob entered (cronMutex taken)
ScheduleCall(t) == cronEngine' = [cronEngine EXCEPT ![t].calls = @ + 1]

\* cronMutex is held between the two steps of addScheduledJob
CronMutexFree ==
  /\ \A t \in Tasks : addPc[t] # "addfunc"
  /\ pollCur[2] # "addfunc"

\* Stop has not been called and the queueProcessor goroutine runs
NotStopped ==
  [pc |-> "no", queueProcessor |-> TRUE, atCall |-> {}, atReturn |-> {}]

\* the cron engine starts the jobs of its entries until cron.Stop()
CronActive == stop.pc = "no"

\* an execution that ends when Stop is called
ExecutionAllowedUntilStop(t) == stop.pc = "no"

\* executeTask and ExecuteTask take no context and never read stopChan
ExecutionAllowed(t) == TRUE

ExecMove(t, from, to) ==
  execs' = [execs EXCEPT ![t] = [@ EXCEPT ![from] = @ - 1, ![to] = @ + 1]]

ExecEnd(t, from) ==
  execs' = [execs EXCEPT ![t] = [@ EXCEPT ![from] = @ - 1]]

-----------------------------------------------------------------------------
(* SchedulerService.AddTask: one call per task *)

\* repo.AddTask(task): the task is stored with status PENDING; a task that is
\* neither IMMEDIATE nor SCHEDULED with a cron expression is left to the poll
AddTaskStore(t) ==
  /\ addPc[t] = "new"
  /\ UpdateTaskStatus(t, StatusPending)
  /\ addPc' = [addPc EXCEPT ![t] =
                 IF cfg[t].TaskType = TypeImmediate THEN "queue"
                 ELSE IF IsCronTask(cfg[t]) THEN "schedule"
                 ELSE "done"]
  /\ UNCHANGED <<cfg, metaRetry, schedVars, pollSnap, pollCur, cronPc, execs,
                 supSnap, supCur, sleepers, histVars, sideVars>>

\* s.repo.AddTask(task) returns an error (a TaskRepository that can fail):
\* AddTask returns it, nothing else is done
AddTaskError(t) ==
  /\ addPc[t] = "new"
  /\ addPc' = [addPc EXCEPT ![t] = "error"]
  /\ UNCHANGED <<cfg, storeVars, schedVars, pollSnap, pollCur, cronPc, execs,
                 supSnap, supCur, sleepers, histVars, sideVars>>

\* queueTask, first half: repo.UpdateTaskStatus(task.ID, QUEUED)
AddTaskQueue(t) ==
  /\ addPc[t] = "queue"
  /\ UpdateTaskStatus(t, StatusQueued)
  /\ addPc' = [addPc EXCEPT ![t] = "append"]
  /\ UNCHANGED <<cfg, metaRetry, schedVars, pollSnap, pollCur, cronPc, execs,
                 supSnap, supCur, sleepers, histVars, sideVars>>

\* queueTask, second half: the section under queueMutex
AddTaskAppend(t) ==
  /\ addPc[t] = "append"
  /\ QueueAppend(t)
  /\ addPc' = [addPc EXCEPT ![t] = "done"]
  /\ UNCHANGED <<cfg, storeVars, runningTasks, cronJobs, cronEngine, cronFires, pollSnap,
                 pollCur, cronPc, execs, supSnap, supCur, sleepers, histVars,
                 sideVars>>

\* addScheduledJob, first half: under cronMutex, return if the task has an
\* entry in cronJobs, else repo.UpdateTaskStatus(task.ID, SCHEDULED)
AddTaskSchedule(t) ==
  /\ addPc[t] = "schedule"
  /\ CronMutexFree
  /\ ScheduleCall(t)
  /\ IF AlreadyScheduled(t)
     THEN /\ addPc' = [addPc EXCEPT ![t] = "done"]
          /\ UNCHANGED status
     ELSE /\ addPc' = [addPc EXCEPT ![t] = "addfunc"]
          /\ UpdateTaskStatus(t, StatusScheduled)
  /\ UNCHANGED <<cfg, metaRetry, taskQueue, runningTasks, cronJobs, cronFires,
                 pollSnap, pollCur, cronPc, execs, supSnap, supCur, sleepers,
                 histVars, sideVars>>

\* a registration that records an entry whatever cron.AddFunc returns
AddFuncIgnoringError(t) ==
  /\ cronJobs' = cronJobs \cup {t}
  /\ cronEngine' = [cronEngine EXCEPT ![t].entries = @ + 1]
  /\ UNCHANGED status

\* addScheduledJob, second half: s.cron.AddFunc(task.CronExpr, ...); on an
\* error the task is FAILED, else the entry is recorded in cronJobs
AddFunc(t) ==
  IF cfg[t].CronExpr = CronValid
  THEN /\ cronJobs' = cronJobs \cup {t}
       /\ cronEngine' = [cronEngine EXCEPT ![t].entries = @ + 1]
       /\ UNCHANGED status
  ELSE /\ UpdateTaskStatus(t, StatusFailed)
       /\ UNCHANGED <<cronJobs, cronEngine>>

AddTaskAddFunc(t) ==
  /\ addPc[t] = "addfunc"
  /\ AddFunc(t)
  /\ addPc' = [addPc EXCEPT ![t] = "done"]
  /\ UNCHANGED <<cfg, metaRetry, taskQueue, runningTasks, cronFires, pollSnap,
                 pollCur, cronPc, execs, supSnap, supCur, sleepers, histVars,
                 sideVars>>

-----------------------------------------------------------------------------
(* SchedulerService.pollForNewTasks (cron entry "@every pollInterval") *)

\* pending := s.repo.GetTasksByStatus(PENDING)
PollStart ==
  /\ CronActive
  /\ pollSnap = {}
  /\ pollCur = <<NoTask, "idle">>
  /\ pollSnap' = GetTasksByStatus(status, StatusPending)
  /\ UNCHANGED <<cfg, storeVars, schedVars, addPc, pollCur, cronPc, execs,
                 supSnap, supCur, sleepers, histVars, sideVars>>

\* one iteration of the loop over pending, up to the first repository write
PollItem(t) ==
  /\ t \in pollSnap
  /\ pollCur = <<NoTask, "idle">>
  /\ pollSnap' = pollSnap \ {t}
  /\ IF IsCronTask(cfg[t])
     THEN /\ CronMutexFree
          /\ ScheduleCall(t)
          /\ IF AlreadyScheduled(t)
             THEN UNCHANGED <<status, pollCur>>
             ELSE /\ UpdateTaskStatus(t, StatusScheduled)
                  /\ pollCur' = <<t, "addfunc">>
     ELSE /\ UpdateTaskStatus(t, StatusQueued)
          /\ pollCur' = <<t, "append">>
          /\ UNCHANGED cronEngine
  /\ UNCHANGED <<cfg, metaRetry, taskQueue, runningTasks, cronJobs, cronFires,
                 addPc, cronPc, execs, supSnap, supCur, sleepers, histVars,
                 sideVars>>

PollAppend ==
  /\ pollCur[2] = "append"
  /\ QueueAppend(pollCur[1])
  /\ pollCur' = <<NoTask, "idle">>
  /\ UNCHANGED <<cfg, storeVars, runningTasks, cronJobs, cronEngine, cronFires, addPc,
                 pollSnap, cronPc, execs, supSnap, supCur, sleepers, histVars,
                 sideVars>>

PollAddFunc ==
  /\ pollCur[2] = "addfunc"
  /\ AddFunc(pollCur[1])
  /\ pollCur' = <<NoTask, "idle">>
  /\ UNCHANGED <<cfg, metaRetry, taskQueue, runningTasks, cronFires, addPc,
                 pollSnap, cronPc, execs, supSnap, supCur, sleepers, histVars,
                 sideVars>>

-----------------------------------------------------------------------------
(* The cron callback that addScheduledJob registers for a task *)

\* the entry fires: GetTaskByID, then the test of the status
CronFire(t) ==
  /\ CronActive
  /\ t \in cronJobs
  /\ cronPc[t] = "idle"
  /\ cronFires[t] < MaxFires
  /\ cronFires' = [cronFires EXCEPT ![t] = @ + 1]
  /\ cronPc' = [cronPc EXCEPT ![t] = IF CronSkips(status[t]) THEN "idle" ELSE "queue"]
  /\ UNCHANGED <<cfg, storeVars, taskQueue, runningTasks, cronJobs, cronEngine, addPc,
                 pollSnap, pollCur, execs, supSnap, supCur, sleepers, histVars,
                 sideVars>>

CronQueue(t) ==
  /\ cronPc[t] = "queue"
  /\ UpdateTaskStatus(t, StatusQueued)
  /\ cronPc' = [cronPc EXCEPT ![t] = "append"]
  /\ UNCHANGED <<cfg, metaRetry, schedVars, addPc, pollSnap, pollCur, execs,
                 supSnap, supCur, sleepers, histVars, sideVars>>

CronAppend(t) ==
  /\ cronPc[t] = "append"
  /\ QueueAppend(t)
  /\ cronPc' = [cronPc EXCEPT ![t] = "idle"]
  /\ UNCHANGED <<cfg, storeVars, runningTasks, cronJobs, cronEngine, cronFires, addPc,
                 pollSnap, pollCur, execs, supSnap, supCur, sleepers, histVars,
                 sideVars>>

-----------------------------------------------------------------------------
(* SchedulerService.processTaskQueue, under queueMutex from start to end *)

Count(seq, t) == Cardinality({i \in 1..Len(seq) : seq[i] = t})

\* the effect of one cycle run with the given maxConcurrency: the queue is
\* replaced and one executeTask goroutine is started per launched task
processTaskQueueStep(maxConcurrency) ==
  LET r == ProcessCycle(cfg, taskQueue, status, runningTasks, maxConcurrency) IN
  /\ taskQueue' = r.queue
  /\ execs' = [t \in DOMAIN execs |->
                 [execs[t] EXCEPT !["launched"] = @ + Count(r.launched, t)]]
  /\ attempts' = [t \in DOMAIN attempts |-> attempts[t] + Count(r.launched, t)]

processTaskQueue ==
  /\ processTaskQueueStep(MaxConcurrency)
  /\ UNCHANGED <<cfg, storeVars, runningTasks, cronJobs, cronEngine, cronFires, addPc,
                 pollSnap, pollCur, cronPc, supSnap, supCur, sleepers,
                 timeouts, requeues, sideVars>>

\* the cron entry "@every 5s" of Start
ProcessQueueCron == CronActive /\ processTaskQueue

\* queueProcessor: the 1-second ticker, until the goroutine returns
ProcessQueueTicker == stop.queueProcessor /\ processTaskQueue

-----------------------------------------------------------------------------
(* SchedulerService.executeTask and TaskExecutor.ExecuteTask: one goroutine *)
(* per launch                                                              *)

\* s.runningTasks[task.ID] = true
ExecRegister(t) ==
  /\ ExecutionAllowed(t)
  /\ execs[t]["launched"] > 0
  /\ ExecMove(t, "launched", "registered")
  /\ runningTasks' = runningTasks \cup {t}
  /\ UNCHANGED <<cfg, storeVars, taskQueue, cronJobs, cronEngine, cronFires, addPc,
                 pollSnap, pollCur, cronPc, supSnap, supCur, sleepers,
                 histVars, sideVars>>

\* GetTaskByID, then repo.UpdateTaskStatus(taskID, RUNNING)
ExecStart(t) ==
  /\ ExecutionAllowed(t)
  /\ execs[t]["registered"] > 0
  /\ ExecMove(t, "registered", "running")
  /\ UpdateTaskStatus(t, StatusRunning)
  /\ UNCHANGED <<cfg, metaRetry, schedVars, addPc, pollSnap, pollCur, cronPc,
                 supSnap, supCur, sleepers, histVars, sideVars>>

\* handleTaskExecution returns; repo.UpdateTask(task), then
\* repo.UpdateTaskStatus(taskID, DONE)
ExecFinish(t) ==
  /\ ExecutionAllowed(t)
  /\ execs[t]["running"] > 0
  /\ ExecMove(t, "running", "finished")
  /\ UpdateTaskStatus(t, StatusDone)
  /\ UNCHANGED <<cfg, metaRetry, schedVars, addPc, pollSnap, pollCur, cronPc,
                 supSnap, supCur, sleepers, histVars, sideVars>>

\* delete(s.runningTasks, task.ID)
ExecReturn(t) ==
  /\ ExecutionAllowed(t)
  /\ execs[t]["finished"] > 0
  /\ ExecEnd(t, "finished")
  /\ runningTasks' = runningTasks \ {t}
  /\ UNCHANGED <<cfg, storeVars, taskQueue, cronJobs, cronEngine, cronFires, addPc,
                 pollSnap, pollCur, cronPc, supSnap, supCur, sleepers,
                 histVars, sideVars>>

-----------------------------------------------------------------------------
(* SchedulerService.checkTaskTimeouts (cron entry "@every 10s") and the     *)
(* retry goroutine it starts                                               *)

\* runningTasks := s.repo.GetTasksByStatus(RUNNING)
SupStart ==
  /\ CronActive
  /\ supSnap = {}
  /\ supCur = NoTask
  /\ supSnap' = GetTasksByStatus(status, StatusRunning)
  /\ UNCHANGED <<cfg, storeVars, schedVars, addPc, pollSnap, pollCur, cronPc,
                 execs, supCur, sleepers, histVars, sideVars>>

\* a timeout test that ignores TimeoutSeconds
TimeoutAlwaysEnforced(task) == TRUE

\* task.TimeoutSeconds > 0 && task.IsTimeoutReached(task.UpdatedAt)
TimeoutEnforced(task) == task.TimeoutSeconds > 0

\* an iteration that finds no timeout
SupSkip(t) ==
  /\ t \in supSnap
  /\ supCur = NoTask
  /\ supSnap' = supSnap \ {t}
  /\ UNCHANGED <<cfg, storeVars, schedVars, addPc, pollSnap, pollCur, cronPc,
                 execs, supCur, sleepers, histVars, sideVars>>

\* an iteration that finds the timeout reached:
\* repo.UpdateTaskStatus(task.ID, TIMEOUT)
SupTimeout(t) ==
  /\ t \in supSnap
  /\ supCur = NoTask
  /\ TimeoutEnforced(cfg[t])
  /\ supSnap' = supSnap \ {t}
  /\ supCur' = t
  /\ UpdateTaskStatus(t, StatusTimeout)
  /\ timeouts' = [timeouts EXCEPT ![t] = @ + 1]
  /\ UNCHANGED <<cfg, metaRetry, schedVars, addPc, pollSnap, pollCur, cronPc,
                 execs, sleepers, attempts, requeues, sideVars>>

\* the rest of the iteration: retry (metadata retry_count + 1, UpdateTask,
\* status RETRY, go func: sleep then queueTask) or FAILED
SupResolve ==
  /\ supCur # NoTask
  /\ LET t == supCur IN
     IF SupRetries(cfg[t], metaRetry[t])
     THEN /\ metaRetry' = [metaRetry EXCEPT ![t] = @ + 1]
          /\ UpdateTaskStatus(t, StatusRetry)
          /\ sleepers' = [sleepers EXCEPT ![t] = [@ EXCEPT !["sleeping"] = @ + 1]]
          /\ requeues' = [requeues EXCEPT ![t] = @ + 1]
     ELSE /\ UpdateTaskStatus(t, StatusFailed)
          /\ UNCHANGED <<metaRetry, sleepers, requeues>>
  /\ supCur' = NoTask
  /\ UNCHANGED <<cfg, schedVars, addPc, pollSnap, pollCur, cronPc, execs,
                 supSnap, attempts, timeouts, sideVars>>

\* time.Sleep(delay) is over: queueTask, first half
SleeperWake(t) ==
  /\ sleepers[t]["sleeping"] > 0
  /\ sleepers' = [sleepers EXCEPT ![t] =
                    [@ EXCEPT !["sleeping"] = @ - 1, !["append"] = @ + 1]]
  /\ UpdateTaskStatus(t, StatusQueued)
  /\ UNCHANGED <<cfg, metaRetry, schedVars, addPc, pollSnap, pollCur, cronPc,
                 execs, supSnap, supCur, histVars, sideVars>>

SleeperAppend(t) ==
  /\ sleepers[t]["append"] > 0
  /\ sleepers' = [sleepers EXCEPT ![t] = [@ EXCEPT !["append"] = @ - 1]]
  /\ QueueAppend(t)
  /\ UNCHANGED <<cfg, storeVars, runningTasks, cronJobs, cronEngine, cronFires, addPc,
                 pollSnap, pollCur, cronPc, execs, supSnap, supCur, histVars,
                 sideVars>>

-----------------------------------------------------------------------------
(* The handler-based TaskExecutor (ExecuteTask(task *models.Task) error),   *)
(* called directly with a task; nothing in the scheduler calls it.  One    *)
(* call at a time.                                                         *)

\* if task.Status != PENDING && task.Status != RETRY: error
Executable(s) == s = StatusPending \/ s = StatusRetry

\* the retry test without the test for a retry policy
HandlerRetriesAnyPolicy(task) == task.RetryCount <= task.MaxRetries

\* the retry test after a handler error
HandlerRetries(task) == task.HasRetryPolicy /\ task.RetryCount < task.MaxRetries

\* a handler error always ends in FAILED
AfterHandlerNoRetry(task, err) ==
  IF ~err
  THEN [task EXCEPT !.Status = StatusDone, !.Result = "Success"]
  ELSE [task EXCEPT !.Status = StatusFailed, !.Result = "Error"]

\* the status, retry_count and execution_result the call leaves after the
\* handler returned err
AfterHandler(task, err) ==
  IF ~err
  THEN [task EXCEPT !.Status = StatusDone, !.Result = "Success"]
  ELSE IF HandlerRetries(task)
       THEN [task EXCEPT !.Status = StatusRetry, !.RetryCount = @ + 1,
                         !.NextRunAtSet = TRUE, !.Result = "Error"]
       ELSE [task EXCEPT !.Status = StatusFailed, !.Result = "Error"]

\* the call returns the error without touching the task
HExecuteReject ==
  /\ hx.pc = "idle"
  /\ ~Executable(hx.task.Status)
  /\ hx' = [hx EXCEPT !.errors = TRUE, !.returned = "error"]
  /\ UNCHANGED <<cfg, storeVars, schedVars, procVars, histVars, cycle, call, stop, conf>>

\* task.Status = RUNNING; repo.UpdateTask(task); the handler starts
HExecuteStart ==
  /\ hx.pc = "idle"
  /\ Executable(hx.task.Status)
  /\ hx' = [hx EXCEPT !.pc = "running", !.calls = @ + 1,
                      !.task = [@ EXCEPT !.Status = StatusRunning]]
  /\ UNCHANGED <<cfg, storeVars, schedVars, procVars, histVars, cycle, call, stop, conf>>

\* the handler returns (err or nil); the result is saved with repo.UpdateTask
HExecuteEnd(err) ==
  /\ hx.pc = "running"
  /\ hx' = [hx EXCEPT !.pc = "idle", !.task = AfterHandler(@, err),
                      !.failures = @ + (IF err THEN 1 ELSE 0),
                      !.returned = "nil"]
  /\ UNCHANGED <<cfg, storeVars, schedVars, procVars, histVars, cycle, call, stop, conf>>

HTask(hasPolicy, maxRetries) ==
  [Status |-> StatusPending, RetryCount |-> 0, NextRunAtSet |-> FALSE,
   Result |-> "none", HasRetryPolicy |-> hasPolicy, MaxRetries |-> maxRetries]

HInit(tasks) ==
  hx \in {[pc |-> "idle", calls |-> 0, failures |-> 0, errors |-> FALSE,
           returned |-> "none", task |-> t] : t \in tasks}

HOff == [pc |-> "off"]

\* no function is looked at alone
NoCall == [fn |-> "none"]

\* no ConfigurationService is constructed
ConfOff == [pc |-> "off"]

NextH ==
  \/ HExecuteReject
  \/ HExecuteStart
  \/ \E err \in BOOLEAN : HExecuteEnd(err)

-----------------------------------------------------------------------------
(* The specifications *)

Immediate(timeout, hasPolicy, maxRetries) ==
  Task(TypeImmediate, CronNone, PriorityMedium, <<>>, timeout, hasPolicy, maxRetries)
Scheduled(deps, timeout, hasPolicy, maxRetries) ==
  Task(TypeScheduled, CronValid, PriorityHigh, deps, timeout, hasPolicy, maxRetries)
\* a task ID that is never submitted
Absent == Task("ABSENT", CronNone, PriorityLow, <<>>, 0, FALSE, 0)

Scenario(a, b) == [t \in Tasks |-> IF t = "t1" THEN a ELSE b]

InitSched(scenarios) ==
  /\ cfg \in scenarios
  /\ status = [t \in Tasks |-> NotStored]
  /\ metaRetry = [t \in Tasks |-> 0]
  /\ taskQueue = <<>>
  /\ runningTasks = {}
  /\ cronJobs = {}
  /\ cronEngine = [t \in Tasks |-> [calls |-> 0, entries |-> 0]]
  /\ cronFires = [t \in Tasks |-> 0]
  /\ addPc = [t \in Tasks |-> IF cfg[t] = Absent THEN "absent" ELSE "new"]
  /\ pollSnap = {}
  /\ pollCur = <<NoTask, "idle">>
  /\ cronPc = [t \in Tasks |-> "idle"]
  /\ execs = [t \in Tasks |-> [p \in ExecPcs |-> 0]]
  /\ supSnap = {}
  /\ supCur = NoTask
  /\ sleepers = [t \in Tasks |-> [p \in SleepPcs |-> 0]]
  /\ attempts = [t \in Tasks |-> 0]
  /\ timeouts = [t \in Tasks |-> 0]
  /\ requeues = [t \in Tasks |-> 0]

NextCron ==
  \/ \E t \in Tasks : AddTaskSchedule(t)
  \/ \E t \in Tasks : AddTaskAddFunc(t)
  \/ PollAddFunc
  \/ \E t \in Tasks : CronFire(t)
  \/ \E t \in Tasks : CronQueue(t)
  \/ \E t \in Tasks : CronAppend(t)

NextImmediate ==
  \/ \E t \in Tasks : AddTaskStore(t)
  \/ \E t \in Tasks : AddTaskError(t)
  \/ \E t \in Tasks : AddTaskQueue(t)
  \/ \E t \in Tasks : AddTaskAppend(t)
  \/ PollStart
  \/ \E t \in Tasks : PollItem(t)
  \/ PollAppend
  \/ ProcessQueueCron
  \/ ProcessQueueTicker
  \/ \E t \in Tasks : ExecRegister(t)
  \/ \E t \in Tasks : ExecStart(t)
  \/ \E t \in Tasks : ExecFinish(t)
  \/ \E t \in Tasks : ExecReturn(t)
  \/ SupStart
  \/ \E t \in Tasks : SupSkip(t)
  \/ \E t \in Tasks : SupTimeout(t)
  \/ SupResolve
  \/ \E t \in Tasks : SleeperWake(t)
  \/ \E t \in Tasks : SleeperAppend(t)

\* a cron expression that cron.AddFunc rejects
BadCron(task) == [task EXCEPT !.CronExpr = CronBad]

\* The scheduler with an immediate task that has a timeout and a retry policy
\* and a cron task of higher priority that depends on it, its cron
\* expression accepted by the engine or not
Init ==
  /\ InitSched({Scenario(Immediate(1, TRUE, 1), Scheduled(<<"t1">>, 0, FALSE, 0)),
                Scenario(Immediate(1, TRUE, 1),
                         BadCron(Scheduled(<<"t1">>, 0, FALSE, 0)))})
  /\ cycle = <<>>
  /\ call = NoCall
  /\ stop = NotStopped
  /\ conf = ConfOff
  /\ hx = HOff

Next == NextImmediate \/ NextCron

Spec == Init /\ [][Next]_vars

\* The scheduler with a plain immediate task and a cron task that has a
\* timeout and a retry policy
InitCron ==
  /\ InitSched({Scenario(Immediate(0, FALSE, 0), Scheduled(<<>>, 1, TRUE, 1))})
  /\ cycle = <<>>
  /\ call = NoCall
  /\ stop = NotStopped
  /\ conf = ConfOff
  /\ hx = HOff

SpecCron == InitCron /\ [][Next]_vars

\* The two retry paths side by side: the scheduler with one immediate task
\* that has a timeout, and the handler-based executor with one task; each
\* task without a retry policy or with one of MaxRetries 0..RetryLimit
InitRetry ==
  /\ InitSched({Scenario(Immediate(1, TRUE, n), Absent) : n \in 0..RetryLimit}
                 \cup {Scenario(Immediate(1, FALSE, 0), Absent)})
  /\ cycle = <<>>
  /\ call = NoCall
  /\ stop = NotStopped
  /\ conf = ConfOff
  /\ HInit({HTask(TRUE, n) : n \in 0..RetryLimit} \cup {HTask(FALSE, 0)})

NextRetry == NextImmediate \/ NextH

SpecRetry == InitRetry /\ [][NextRetry]_vars

\* a retry goroutine, once started, runs: its sleep ends and its queueTask
\* call completes
RetryGoroutinesRun ==
  \A t \in Tasks : WF_vars(SleeperWake(t)) /\ WF_vars(SleeperAppend(t))

SpecRetryFair == SpecRetry /\ RetryGoroutinesRun

\* ---------------------------------------------------------------------
\* SchedulerService.Stop
\* ---------------------------------------------------------------------

\* the jobs of the cron engine that have started and not returned
CronJobsRunning ==
  \/ pollSnap # {} \/ pollCur # <<NoTask, "idle">>
  \/ supSnap # {} \/ supCur # NoTask
  \/ \E t \in Tasks : cronPc[t] # "idle"

\* close(s.stopChan); ctx := s.cron.Stop()
Stop ==
  /\ stop.pc = "no"
  /\ stop' = [stop EXCEPT !.pc = "waiting",
                          !.atCall = {t \in Tasks : InFlight(t) > 0}]
  /\ UNCHANGED <<cfg, storeVars, schedVars, procVars, histVars, cycle, hx, call, conf>>

\* <-ctx.Done(): the running cron jobs have returned; Stop returns
StopReturn ==
  /\ stop.pc = "waiting"
  /\ ~CronJobsRunning
  /\ stop' = [stop EXCEPT !.pc = "returned",
                          !.atReturn = {t \in Tasks : InFlight(t) > 0}]
  /\ UNCHANGED <<cfg, storeVars, schedVars, procVars, histVars, cycle, hx, call, conf>>

\* queueProcessor: case <-s.stopChan: return
QueueProcessorReturn ==
  /\ stop.pc # "no"
  /\ stop.queueProcessor
  /\ stop' = [stop EXCEPT !.queueProcessor = FALSE]
  /\ UNCHANGED <<cfg, storeVars, schedVars, procVars, histVars, cycle, hx, call, conf>>

\* The scheduler with one immediate task that has a timeout and a retry
\* policy, and a Stop call at any moment
InitStop ==
  /\ InitSched({Scenario(Immediate(1, TRUE, 1), Absent)})
  /\ cycle = <<>>
  /\ hx = HOff
  /\ call = NoCall
  /\ stop = NotStopped
  /\ conf = ConfOff

NextStop == NextImmediate \/ Stop \/ StopReturn \/ QueueProcessorReturn

SpecStop == InitStop /\ [][NextStop]_vars

\* an executeTask goroutine, once started, runs to its end
ExecutionsRun ==
  \A t \in Tasks :
    /\ WF_vars(ExecRegister(t)) /\ WF_vars(ExecStart(t))
    /\ WF_vars(ExecFinish(t)) /\ WF_vars(ExecReturn(t))

SpecStopFair == SpecStop /\ ExecutionsRun

-----------------------------------------------------------------------------
(* The poll path under fair scheduling: a task without cron expression,    *)
(* dependencies or timeout next to a cron task whose entry fires without   *)
(* end.  The history counters stand still, so that the behaviours that go  *)
(* on for ever are behaviours over finitely many states.                   *)

\* executions of one task in flight at which a firing of its entry is
\* still followed
MaxOverlap == 1

\* the entry fires, any number of times: GetTaskByID, then the status test
CronFireUnbounded(t) ==
  /\ CronActive
  /\ t \in cronJobs
  /\ cronPc[t] = "idle"
  /\ InFlight(t) <= MaxOverlap
  /\ cronPc' = [cronPc EXCEPT ![t] = IF CronSkips(status[t]) THEN "idle" ELSE "queue"]
  /\ UNCHANGED <<cfg, storeVars, schedVars, addPc, pollSnap, pollCur, execs,
                 supSnap, supCur, sleepers, histVars, sideVars>>

\* processTaskQueue, by the ticker or by the cron entry, the launches left
\* out of the history
processTaskQueueUntraced ==
  /\ LET r == ProcessCycle(cfg, taskQueue, status, runningTasks, MaxConcurrency) IN
       /\ taskQueue' = r.queue
       /\ execs' = [t \in DOMAIN execs |->
                      [execs[t] EXCEPT !["launched"] = @ + Count(r.launched, t)]]
  /\ UNCHANGED <<cfg, storeVars, runningTasks, cronJobs, cronEngine, cronFires, addPc,
                 pollSnap, pollCur, cronPc, supSnap, supCur, sleepers,
                 histVars, sideVars>>

\* a task of priority MEDIUM that AddTask stores and leaves to the poll, and
\* a cron task of any priority
InitPoll ==
  /\ InitSched({Scenario(Task(TypeScheduled, CronNone, PriorityMedium, <<>>, 0, FALSE, 0),
                         Task(TypeScheduled, CronValid, p, <<>>, 0, FALSE, 0)) :
                  p \in {PriorityHigh, PriorityMedium, PriorityLow}})
  /\ cycle = <<>>
  /\ hx = HOff
  /\ call = NoCall
  /\ stop = NotStopped
  /\ conf = ConfOff

NextPoll ==
  \/ \E t \in Tasks : AddTaskStore(t)
  \/ \E t \in Tasks : AddTaskError(t)
  \/ \E t \in Tasks : AddTaskSchedule(t)
  \/ \E t \in Tasks : AddTaskAddFunc(t)
  \/ PollStart
  \/ \E t \in Tasks : PollItem(t)
  \/ PollAppend
  \/ PollAddFunc
  \/ \E t \in Tasks : CronFireUnbounded(t)
  \/ \E t \in Tasks : CronQueue(t)
  \/ \E t \in Tasks : CronAppend(t)
  \/ processTaskQueueUntraced
  \/ \E t \in Tasks : ExecRegister(t)
  \/ \E t \in Tasks : ExecStart(t)
  \/ \E t \in Tasks : ExecFinish(t)
  \/ \E t \in Tasks : ExecReturn(t)

\* every loop of Start keeps running and every call or goroutine that has
\* started runs to its end
LoopsRun ==
  /\ WF_vars(PollStart) /\ WF_vars(PollAppend) /\ WF_vars(PollAddFunc)
  /\ WF_vars(processTaskQueueUntraced)
  /\ \A t \in Tasks :
       /\ WF_vars(PollItem(t))
       /\ WF_vars(AddTaskSchedule(t)) /\ WF_vars(AddTaskAddFunc(t))
       /\ WF_vars(CronFireUnbounded(t))
       /\ WF_vars(CronQueue(t)) /\ WF_vars(CronAppend(t))
       /\ WF_vars(ExecRegister(t)) /\ WF_vars(ExecStart(t))
       /\ WF_vars(ExecFinish(t)) /\ WF_vars(ExecReturn(t))

SpecPollFair == InitPoll /\ [][NextPoll]_vars /\ LoopsRun

-----------------------------------------------------------------------------
(* processTaskQueue alone: four tasks enter the queue in the order c1, c2,  *)
(* c3, c4 (queueTask) and cycles run in between, for every assignment of   *)
(* priorities and dependencies and every maxConcurrency up to MaxSlots     *)

MaxSlots == 4

CycleOrder == <<"c1", "c2", "c3", "c4">>
CycleTasks == Range(CycleOrder)
CycleDep   == "dep"

Priorities == {PriorityHigh, PriorityMedium, PriorityLow}

InitCycle ==
  /\ cfg \in [CycleTasks ->
               {Task(TypeImmediate, CronNone, p, d, 0, FALSE, 0) :
                  p \in Priorities, d \in {<<>>, <<CycleDep>>}}]
  /\ status = [t \in CycleTasks \cup {CycleDep} |->
                 IF t = CycleDep THEN StatusFailed ELSE StatusPending]
  /\ \E m \in 1..MaxSlots :
       cycle = [max |-> m, arrived |-> 0, ran |-> FALSE, before |-> <<>>,
                launched |-> <<>>, remaining |-> <<>>]
  /\ metaRetry = [t \in CycleTasks |-> 0]
  /\ taskQueue = <<>>
  /\ runningTasks = {}
  /\ cronJobs = {}
  /\ cronEngine = [t \in CycleTasks |-> [calls |-> 0, entries |-> 0]]
  /\ cronFires = [t \in CycleTasks |-> 0]
  /\ addPc = [t \in CycleTasks |-> "done"]
  /\ pollSnap = {}
  /\ pollCur = <<NoTask, "idle">>
  /\ cronPc = [t \in CycleTasks |-> "idle"]
  /\ execs = [t \in CycleTasks |-> [p \in ExecPcs |-> 0]]
  /\ supSnap = {}
  /\ supCur = NoTask
  /\ sleepers = [t \in CycleTasks |-> [p \in SleepPcs |-> 0]]
  /\ attempts = [t \in CycleTasks |-> 0]
  /\ timeouts = [t \in CycleTasks |-> 0]
  /\ requeues = [t \in CycleTasks |-> 0]
  /\ hx = HOff
  /\ call = NoCall
  /\ stop = NotStopped
  /\ conf = ConfOff

\* queueTask for the next task of CycleOrder
CycleArrive ==
  /\ cycle.arrived < Len(CycleOrder)
  /\ LET t == CycleOrder[cycle.arrived + 1] IN
       /\ UpdateTaskStatus(t, StatusQueued)
       /\ QueueAppend(t)
  /\ cycle' = [cycle EXCEPT !.arrived = @ + 1]
  /\ UNCHANGED <<cfg, metaRetry, runningTasks, cronJobs, cronEngine, cronFires, procVars,
                 histVars, hx, call, stop, conf>>

\* processTaskQueue with maxConcurrency = cycle.max, recording what it read
\* and what it did
CycleRun ==
  /\ processTaskQueueStep(cycle.max)
  /\ LET r == ProcessCycle(cfg, taskQueue, status, runningTasks, cycle.max) IN
       cycle' = [cycle EXCEPT !.ran = TRUE, !.before = taskQueue,
                              !.launched = r.launched, !.remaining = r.queue]
  /\ UNCHANGED <<cfg, storeVars, runningTasks, cronJobs, cronEngine, cronFires, addPc,
                 pollSnap, pollCur, cronPc, supSnap, supCur, sleepers,
                 timeouts, requeues, hx, call, stop, conf>>

NextCycle == CycleArrive \/ CycleRun

SpecCycle == InitCycle /\ [][NextCycle]_vars

-----------------------------------------------------------------------------
(* The two computations of a retry delay, each as a function of the retry  *)
(* policy and the retry count.  Durations are whole units and the backoff  *)
(* factor is a whole number, for which the float64 arithmetic is exact.    *)

\* largest RetryPolicy.RetryDelay and RetryPolicy.BackoffFactor looked at
MaxDelay == 5
MaxFactor == 3

\* checkTaskTimeouts, retry goroutine: delay := RetryDelay; if retryCount > 0,
\* delay = Duration(float64(delay) * BackoffFactor * float64(retryCount))
SupervisorDelay(retryDelay, backoffFactor, retryCount) ==
  IF retryCount > 0 THEN retryDelay * backoffFactor * retryCount ELSE retryDelay

\* TaskExecutor.ExecuteTask: NextRunAt = now + RetryDelay * Duration(BackoffFactor)
HandlerDelay(retryDelay, backoffFactor) == retryDelay * backoffFactor

InitDelay ==
  /\ cfg = <<>> /\ status = <<>> /\ metaRetry = <<>> /\ taskQueue = <<>>
  /\ runningTasks = {} /\ cronJobs = {} /\ cronEngine = <<>> /\ cronFires = <<>>
  /\ addPc = <<>> /\ pollSnap = {} /\ pollCur = <<NoTask, "idle">>
  /\ cronPc = <<>> /\ execs = <<>> /\ supSnap = {} /\ supCur = NoTask
  /\ sleepers = <<>> /\ attempts = <<>> /\ timeouts = <<>> /\ requeues = <<>>
  /\ cycle = <<>> /\ hx = HOff /\ stop = NotStopped
  /\ conf = ConfOff
  /\ call \in {[fn |-> "policy", RetryDelay |-> d, BackoffFactor |-> b,
                retryCount |-> n, delay |-> 0] :
                 d \in 1..MaxDelay, b \in 1..MaxFactor, n \in 0..RetryLimit}

\* the supervisor's retry goroutine computes its sleep; retryCount is the
\* retry_count read before the increment
RetryGoroutineDelay ==
  /\ call.fn = "policy"
  /\ call' = [call EXCEPT !.fn = "supervisor",
                !.delay = SupervisorDelay(call.RetryDelay, call.BackoffFactor,
                                          call.retryCount)]
  /\ UNCHANGED <<cfg, storeVars, schedVars, procVars, histVars, cycle, hx, stop, conf>>

\* the handler-based executor computes NextRunAt - now after a handler error;
\* retryCount is RetryCount after the increment
HandlerNextRunAt ==
  /\ call.fn = "policy"
  /\ call.retryCount >= 1
  /\ call' = [call EXCEPT !.fn = "executor",
                !.delay = HandlerDelay(call.RetryDelay, call.BackoffFactor)]
  /\ UNCHANGED <<cfg, storeVars, schedVars, procVars, histVars, cycle, hx, stop, conf>>

NextDelay == RetryGoroutineDelay \/ HandlerNextRunAt

SpecDelay == InitDelay /\ [][NextDelay]_vars

\* ---------------------------------------------------------------------
\* findHandler looked at alone: two tasks and one handler registry
\* ---------------------------------------------------------------------

MaxTags == 2

TagNames == {"a", "b"}
Handlers == {"h1", "h2"}
NoHandler == "nil"

\* the tag lists a task can carry
TagLists == UNION {[1..n -> TagNames] : n \in 0..MaxTags}

\* the registries RegisterHandler can build: taskHandlers[tag] = handler
Registries == UNION {[D -> Handlers] : D \in SUBSET TagNames}

\* the first tag of the list with a registered handler decides; nil if none
RECURSIVE findHandler(_, _)
findHandler(tags, taskHandlers) ==
  IF tags = <<>>
  THEN NoHandler
  ELSE IF Head(tags) \in DOMAIN taskHandlers
       THEN taskHandlers[Head(tags)]
       ELSE findHandler(Tail(tags), taskHandlers)

InitRoute ==
  /\ cfg = <<>> /\ status = <<>> /\ metaRetry = <<>> /\ taskQueue = <<>>
  /\ runningTasks = {} /\ cronJobs = {} /\ cronEngine = <<>> /\ cronFires = <<>>
  /\ addPc = <<>> /\ pollSnap = {} /\ pollCur = <<NoTask, "idle">>
  /\ cronPc = <<>> /\ execs = <<>> /\ supSnap = {} /\ supCur = NoTask
  /\ sleepers = <<>> /\ attempts = <<>> /\ timeouts = <<>> /\ requeues = <<>>
  /\ cycle = <<>> /\ hx = HOff /\ stop = NotStopped
  /\ conf = ConfOff
  /\ call \in {[fn |-> "route", tags |-> <<ta, tb>>, taskHandlers |-> r,
                handler |-> <<"unset", "unset">>] :
                 ta \in TagLists, tb \in TagLists, r \in Registries}

\* ExecuteTask looks up the handler of the i-th task
FindHandlerCall(i) ==
  /\ call.fn = "route"
  /\ call.handler[i] = "unset"
  /\ call' = [call EXCEPT
                !.handler[i] = findHandler(call.tags[i], call.taskHandlers)]
  /\ UNCHANGED <<cfg, storeVars, schedVars, procVars, histVars, cycle, hx, stop, conf>>

NextRoute == \E i \in 1..2 : FindHandlerCall(i)

SpecRoute == InitRoute /\ [][NextRoute]_vars

\* ---------------------------------------------------------------------
\* The event processors looked at alone: one Mattermost event, one call
\* ---------------------------------------------------------------------

\* the substrings determineTaskType and determinePriority look for in the
\* lower-cased message; a message is the set of those it contains
Markers == {"schedule:", "cron:", "urgent", "emergency", "asap",
            "low priority", "when possible"}

\* the (nil, err) result of ProcessEvent
NilTask == [TaskType |-> "nil", Priority |-> "nil", CronExpr |-> CronNone]

determineTaskType(message) ==
  IF "schedule:" \in message \/ "cron:" \in message
  THEN TypeScheduled
  ELSE TypeImmediate

determinePriority(message) ==
  IF "urgent" \in message \/ "emergency" \in message \/ "asap" \in message
  THEN PriorityHigh
  ELSE IF "low priority" \in message \/ "when possible" \in message
       THEN PriorityLow
       ELSE PriorityMedium

\* events with a post (and its message) and events without one
Events ==
  {[hasPost |-> TRUE, message |-> m] : m \in SUBSET Markers}
    \cup {[hasPost |-> FALSE, message |-> {}]}

InitEvent ==
  /\ cfg = <<>> /\ status = <<>> /\ metaRetry = <<>> /\ taskQueue = <<>>
  /\ runningTasks = {} /\ cronJobs = {} /\ cronEngine = <<>> /\ cronFires = <<>>
  /\ addPc = <<>> /\ pollSnap = {} /\ pollCur = <<NoTask, "idle">>
  /\ cronPc = <<>> /\ execs = <<>> /\ supSnap = {} /\ supCur = NoTask
  /\ sleepers = <<>> /\ attempts = <<>> /\ timeouts = <<>> /\ requeues = <<>>
  /\ cycle = <<>> /\ hx = HOff /\ stop = NotStopped
  /\ conf = ConfOff
  /\ call \in {[fn |-> "event", event |-> e, task |-> NilTask, err |-> FALSE] :
                 e \in Events}

\* PostedMessageProcessor.ProcessEvent: the task literal sets no CronExpr
PostedMessageProcessEvent ==
  /\ call.fn = "event"
  /\ call' = IF ~call.event.hasPost
             THEN [call EXCEPT !.fn = "PostedMessageProcessor", !.err = TRUE]
             ELSE [call EXCEPT !.fn = "PostedMessageProcessor",
                     !.task = [TaskType |-> determineTaskType(call.event.message),
                               Priority |-> determinePriority(call.event.message),
                               CronExpr |-> CronNone]]
  /\ UNCHANGED <<cfg, storeVars, schedVars, procVars, histVars, cycle, hx, stop, conf>>

\* UserAddedProcessor.ProcessEvent
UserAddedProcessEvent ==
  /\ call.fn = "event"
  /\ call' = [call EXCEPT !.fn = "UserAddedProcessor",
                !.task = [TaskType |-> TypeImmediate, Priority |-> PriorityLow,
                          CronExpr |-> CronNone]]
  /\ UNCHANGED <<cfg, storeVars, schedVars, procVars, histVars, cycle, hx, stop, conf>>

NextEvent == PostedMessageProcessEvent \/ UserAddedProcessEvent

SpecEvent == InitEvent /\ [][NextEvent]_vars

\* ---------------------------------------------------------------------
\* ConfigurationService: one refresh at a time (Start's call, then the
\* update loop), callers of GetCurrentConfigurations, and the slices of
\* both on one heap of backing arrays
\* ---------------------------------------------------------------------

MaxRefresh == 2
MaxConfigs == 1
MaxMutations == 1

ConfigNames == {"k1", "k2"}
Readers == {"r1", "r2"}

\* the caller that goes on to change the slice it got
Mutator == "r1"

\* the lists FetchConfigurations can return without error
ConfigLists == UNION {[1..n -> ConfigNames] : n \in 0..MaxConfigs}

\* a slice without a backing array
NoSlice == [arr |-> 0, len |-> 0]

\* the elements a slice shows: the first len elements of its backing array
Contents(c, slice) ==
  IF slice.arr = 0 THEN <<>> ELSE SubSeq(c.heap[slice.arr], 1, slice.len)

\* the addresses of the backing arrays: one per fetch, one per copy made
\* for a caller, one per reallocating append
FetchArray(n) == n
CopyArray(r) == MaxRefresh + (IF r = Mutator THEN 1 ELSE 2)
AppendArray(n) == MaxRefresh + 2 + n
Arrays == 1..(MaxRefresh + 2 + MaxMutations)

\* a new backing array at address a holding list, and the slice over it
NewSlice(c, a, list) ==
  [heap |-> [c.heap EXCEPT ![a] = list],
   slice |-> [arr |-> a, len |-> Len(list)]]

\* updateConfigurations that stores the list and leaves the timestamp
updateConfigurationsKeepingTime(c) ==
  IF c.err THEN c ELSE [c EXCEPT !.configurations = c.fetched]

\* updateConfigurations that stores whatever the fetch returned
updateConfigurationsIgnoringError(c) ==
  [c EXCEPT !.configurations = c.fetched, !.lastUpdateTime = c.now]

\* updateConfigurations after the fetch: return on err; else, under mu.Lock,
\* s.configurations = configs and s.lastUpdateTime = time.Now()
updateConfigurations(c) ==
  IF c.err
  THEN c
  ELSE [c EXCEPT !.configurations = c.fetched, !.lastUpdateTime = c.now]

\* a getter that returns s.configurations itself
SharedSlice(c, r) == [heap |-> c.heap, slice |-> c.configurations]

\* GetCurrentConfigurations: result := make(len); copy(result, configurations)
CopiedSlice(c, r) == NewSlice(c, CopyArray(r), Contents(c, c.configurations))

InitConf ==
  /\ cfg = <<>> /\ status = <<>> /\ metaRetry = <<>> /\ taskQueue = <<>>
  /\ runningTasks = {} /\ cronJobs = {} /\ cronEngine = <<>> /\ cronFires = <<>>
  /\ addPc = <<>> /\ pollSnap = {} /\ pollCur = <<NoTask, "idle">>
  /\ cronPc = <<>> /\ execs = <<>> /\ supSnap = {} /\ supCur = NoTask
  /\ sleepers = <<>> /\ attempts = <<>> /\ timeouts = <<>> /\ requeues = <<>>
  /\ cycle = <<>> /\ hx = HOff /\ call = NoCall /\ stop = NotStopped
  /\ conf = [pc |-> "idle", fetched |-> NoSlice, err |-> FALSE,
             configurations |-> NoSlice, lastUpdateTime |-> 0, now |-> 0,
             heap |-> [a \in Arrays |-> <<>>], history |-> <<>>,
             readers |-> [r \in Readers |-> NoSlice],
             returned |-> [r \in Readers |-> FALSE],
             op |-> "new", mutations |-> 0]

\* s.fetcher.FetchConfigurations() returns (configs, nil)
FetchOk(list) ==
  /\ conf.pc = "idle"
  /\ conf.now < MaxRefresh
  /\ LET n == NewSlice(conf, FetchArray(conf.now + 1), list) IN
     conf' = [conf EXCEPT !.pc = "fetched", !.now = @ + 1, !.heap = n.heap,
                !.fetched = n.slice, !.err = FALSE, !.op = "fetch",
                !.history = Append(@, [ok |-> TRUE, list |-> list])]
  /\ UNCHANGED <<cfg, storeVars, schedVars, procVars, histVars, cycle, hx, call, stop>>

\* s.fetcher.FetchConfigurations() returns (nil, err)
FetchError ==
  /\ conf.pc = "idle"
  /\ conf.now < MaxRefresh
  /\ conf' = [conf EXCEPT !.pc = "fetched", !.now = @ + 1,
                !.fetched = NoSlice, !.err = TRUE, !.op = "fetch",
                !.history = Append(@, [ok |-> FALSE, list |-> <<>>])]
  /\ UNCHANGED <<cfg, storeVars, schedVars, procVars, histVars, cycle, hx, call, stop>>

\* the rest of updateConfigurations
UpdateConfigurations ==
  /\ conf.pc = "fetched"
  /\ conf' = [updateConfigurations(conf) EXCEPT !.pc = "idle", !.op = "update"]
  /\ UNCHANGED <<cfg, storeVars, schedVars, procVars, histVars, cycle, hx, call, stop>>

\* GetCurrentConfigurations() called by r, under mu.RLock
GetCurrentConfigurations(r) ==
  /\ conf.pc # "off"
  /\ ~conf.returned[r]
  /\ LET n == CopiedSlice(conf, r) IN
     conf' = [conf EXCEPT !.heap = n.heap, !.readers[r] = n.slice,
                !.returned[r] = TRUE, !.op = "get"]
  /\ UNCHANGED <<cfg, storeVars, schedVars, procVars, histVars, cycle, hx, call, stop>>

\* the caller's s[i] = v
ReplaceElement(r, i, v) ==
  /\ conf.returned[r] /\ conf.mutations < MaxMutations
  /\ i \in 1..conf.readers[r].len
  /\ conf' = [conf EXCEPT !.heap[conf.readers[r].arr][i] = v,
                !.mutations = @ + 1, !.op = "mutate"]
  /\ UNCHANGED <<cfg, storeVars, schedVars, procVars, histVars, cycle, hx, call, stop>>

\* the caller's s = append(s[:i-1], s[i:]...): the tail moves down in the
\* backing array
RemoveElement(r, i) ==
  /\ conf.returned[r] /\ conf.mutations < MaxMutations
  /\ i \in 1..conf.readers[r].len
  /\ LET sl == conf.readers[r]
         a == conf.heap[sl.arr]
         moved == [k \in 1..Len(a) |->
                     IF k >= i /\ k < sl.len THEN a[k + 1] ELSE a[k]] IN
     conf' = [conf EXCEPT !.heap[sl.arr] = moved, !.readers[r].len = @ - 1,
                !.mutations = @ + 1, !.op = "mutate"]
  /\ UNCHANGED <<cfg, storeVars, schedVars, procVars, histVars, cycle, hx, call, stop>>

\* the caller's s = append(s, v): in place while the backing array has room,
\* into a new array otherwise
AppendElement(r, v) ==
  /\ conf.returned[r] /\ conf.mutations < MaxMutations
  /\ LET sl == conf.readers[r]
         cap == IF sl.arr = 0 THEN 0 ELSE Len(conf.heap[sl.arr])
         n == NewSlice(conf, AppendArray(conf.mutations + 1),
                       Append(Contents(conf, sl), v)) IN
     conf' = IF sl.len < cap
             THEN [conf EXCEPT !.heap[sl.arr][sl.len + 1] = v,
                     !.readers[r].len = @ + 1,
                     !.mutations = @ + 1, !.op = "mutate"]
             ELSE [conf EXCEPT !.heap = n.heap, !.readers[r] = n.slice,
                     !.mutations = @ + 1, !.op = "mutate"]
  /\ UNCHANGED <<cfg, storeVars, schedVars, procVars, histVars, cycle, hx, call, stop>>

NextConf ==
  \/ \E list \in ConfigLists : FetchOk(list)
  \/ FetchError
  \/ UpdateConfigurations
  \/ \E r \in Readers : GetCurrentConfigurations(r)
  \/ \E i \in 1..(MaxConfigs + 1), v \in ConfigNames :
       ReplaceElement(Mutator, i, v)
  \/ \E i \in 1..(MaxConfigs + 1) : RemoveElement(Mutator, i)
  \/ \E v \in ConfigNames : AppendElement(Mutator, v)

SpecConf == InitConf /\ [][NextConf]_vars

\* ---------------------------------------------------------------------
\* mattermost.EventListener: AddFilter, AddHandler and one HandleEvent call
\* at a time, in its two critical sections
\* ---------------------------------------------------------------------

MaxFilters == 2
MaxHandlers == 2

Channels == {"C1", "C2"}
NoChannel == "nil"
EventTypes == {"posted", "user_added"}
EventHandlers == {"e1", "e2"}

\* ChannelFilter{ChannelIDs} and EventTypeFilter{EventTypes}
EventFilters ==
  {[kind |-> "ChannelFilter", values |-> v] : v \in SUBSET Channels}
    \cup {[kind |-> "EventTypeFilter", values |-> v] : v \in SUBSET EventTypes}

ListenerEvents ==
  [Channel : Channels \cup {NoChannel}, Type : EventTypes]

\* ChannelFilter.ShouldProcess and EventTypeFilter.ShouldProcess
ShouldProcess(filter, event) ==
  IF filter.kind = "ChannelFilter"
  THEN event.Channel # NoChannel /\ event.Channel \in filter.values
  ELSE event.Type \in filter.values

\* the loop over the filters
RECURSIVE AnyFilterAccepts(_, _)
AnyFilterAccepts(filters, event) ==
  IF filters = <<>>
  THEN FALSE
  ELSE IF ShouldProcess(Head(filters), event)
       THEN TRUE
       ELSE AnyFilterAccepts(Tail(filters), event)

\* a listener that asks every filter to accept
RECURSIVE shouldProcessEventAll(_, _)
shouldProcessEventAll(filters, event) ==
  IF filters = <<>>
  THEN TRUE
  ELSE ShouldProcess(Head(filters), event)
         /\ shouldProcessEventAll(Tail(filters), event)

\* EventListener.shouldProcessEvent
shouldProcessEvent(filters, event) ==
  IF Len(filters) = 0 THEN TRUE ELSE AnyFilterAccepts(filters, event)

InitListen ==
  /\ cfg = <<>> /\ status = <<>> /\ metaRetry = <<>> /\ taskQueue = <<>>
  /\ runningTasks = {} /\ cronJobs = {} /\ cronEngine = <<>> /\ cronFires = <<>>
  /\ addPc = <<>> /\ pollSnap = {} /\ pollCur = <<NoTask, "idle">>
  /\ cronPc = <<>> /\ execs = <<>> /\ supSnap = {} /\ supCur = NoTask
  /\ sleepers = <<>> /\ attempts = <<>> /\ timeouts = <<>> /\ requeues = <<>>
  /\ cycle = <<>> /\ hx = HOff /\ stop = NotStopped
  /\ conf = ConfOff
  /\ call = [fn |-> "EventListener", filters |-> <<>>, handlers |-> <<>>,
             pc |-> "idle", event |-> [Channel |-> NoChannel, Type |-> "posted"],
             checked |-> <<>>, copied |-> <<>>, delivered |-> <<>>,
             verdict |-> "none"]

\* l.filters = append(l.filters, filter)
AddFilter(filter) ==
  /\ call.fn = "EventListener"
  /\ Len(call.filters) < MaxFilters
  /\ call' = [call EXCEPT !.filters = Append(@, filter)]
  /\ UNCHANGED <<cfg, storeVars, schedVars, procVars, histVars, cycle, hx, stop, conf>>

\* l.handlers = append(l.handlers, handler)
AddHandler(handler) ==
  /\ call.fn = "EventListener"
  /\ Len(call.handlers) < MaxHandlers
  /\ call' = [call EXCEPT !.handlers = Append(@, handler)]
  /\ UNCHANGED <<cfg, storeVars, schedVars, procVars, histVars, cycle, hx, stop, conf>>

\* HandleEvent(event), first critical section: shouldProcessEvent; the call
\* returns on false
HandleEventFilter(event) ==
  /\ call.fn = "EventListener"
  /\ call.pc = "idle"
  /\ LET ok == shouldProcessEvent(call.filters, event) IN
     call' = [call EXCEPT !.event = event, !.checked = call.filters,
                !.copied = <<>>, !.delivered = <<>>,
                !.verdict = IF ok THEN "accepted" ELSE "rejected",
                !.pc = IF ok THEN "dispatch" ELSE "idle"]
  /\ UNCHANGED <<cfg, storeVars, schedVars, procVars, histVars, cycle, hx, stop, conf>>

\* HandleEvent, second critical section and the loop after it: the handlers
\* are copied and each copy's HandleEvent is called in turn
HandleEventDispatch ==
  /\ call.fn = "EventListener"
  /\ call.pc = "dispatch"
  /\ call' = [call EXCEPT !.copied = call.handlers,
                !.delivered = call.handlers, !.pc = "idle"]
  /\ UNCHANGED <<cfg, storeVars, schedVars, procVars, histVars, cycle, hx, stop, conf>>

NextListen ==
  \/ \E filter \in EventFilters : AddFilter(filter)
  \/ \E handler \in EventHandlers : AddHandler(handler)
  \/ \E event \in ListenerEvents : HandleEventFilter(event)
  \/ HandleEventDispatch

SpecListen == InitListen /\ [][NextListen]_vars

\* ---------------------------------------------------------------------
\* The event ingestion pipeline: one event against the loaded
\* configurations (the channel-routing records the fetcher builds)
\* ---------------------------------------------------------------------

MaxLoaded == 2

\* message_type "" matches every event type
AnyMessageType == ""

\* MattermostConfig{ChannelID, MessageType}
MattermostConfigs ==
  [ChannelID : Channels, MessageType : EventTypes \cup {AnyMessageType}]

LoadedLists == UNION {[1..n -> MattermostConfigs] : n \in 0..MaxLoaded}

\* a match that knows no wildcard
MatchesExactly(config, event) ==
  config.ChannelID = event.Channel /\ config.MessageType = event.Type

\* the configuration's channel_id is the event's channel and its
\* message_type is the event's type or empty
Matches(config, event) ==
  /\ config.ChannelID = event.Channel
  /\ (config.MessageType = event.Type \/ config.MessageType = AnyMessageType)

\* the configurations of the loaded list that match, in list order
RECURSIVE MatchingConfigurations(_, _)
MatchingConfigurations(configs, event) ==
  IF configs = <<>>
  THEN <<>>
  ELSE IF Matches(Head(configs), event)
       THEN <<Head(configs)>> \o MatchingConfigurations(Tail(configs), event)
       ELSE MatchingConfigurations(Tail(configs), event)

\* what the processors do with an event that passed: none claims it (a
\* default task is made from the first matched configuration), one claims
\* it and returns a task, or one claims it and fails
ProcessorOutcomes == {"default", "task", "error"}

InitIngest ==
  /\ cfg = <<>> /\ status = <<>> /\ metaRetry = <<>> /\ taskQueue = <<>>
  /\ runningTasks = {} /\ cronJobs = {} /\ cronEngine = <<>> /\ cronFires = <<>>
  /\ addPc = <<>> /\ pollSnap = {} /\ pollCur = <<NoTask, "idle">>
  /\ cronPc = <<>> /\ execs = <<>> /\ supSnap = {} /\ supCur = NoTask
  /\ sleepers = <<>> /\ attempts = <<>> /\ timeouts = <<>> /\ requeues = <<>>
  /\ cycle = <<>> /\ hx = HOff /\ stop = NotStopped
  /\ conf = ConfOff
  /\ call \in {[fn |-> "event", loaded |-> l, event |-> e, matched |-> <<>>,
                tasks |-> 0] : l \in LoadedLists, e \in ListenerEvents}

\* step 1: no configuration is loaded
IngestReject ==
  /\ call.fn = "event"
  /\ call.loaded = <<>>
  /\ call' = [call EXCEPT !.fn = "rejected"]
  /\ UNCHANGED <<cfg, storeVars, schedVars, procVars, histVars, cycle, hx, stop, conf>>

\* step 2: the matching configurations are computed and none matches
IngestDiscard ==
  /\ call.fn = "event"
  /\ call.loaded # <<>>
  /\ MatchingConfigurations(call.loaded, call.event) = <<>>
  /\ call' = [call EXCEPT !.fn = "discarded"]
  /\ UNCHANGED <<cfg, storeVars, schedVars, procVars, histVars, cycle, hx, stop, conf>>

\* steps 2 to 5: some configuration matches and the processors take over
IngestProcess(outcome) ==
  /\ call.fn = "event"
  /\ call.loaded # <<>>
  /\ MatchingConfigurations(call.loaded, call.event) # <<>>
  /\ call' = [call EXCEPT !.fn = outcome,
                !.matched = MatchingConfigurations(call.loaded, call.event),
                !.tasks = IF outcome = "error" THEN 0 ELSE 1]
  /\ UNCHANGED <<cfg, storeVars, schedVars, procVars, histVars, cycle, hx, stop, conf>>

NextIngest ==
  \/ IngestReject
  \/ IngestDiscard
  \/ \E outcome \in ProcessorOutcomes : IngestProcess(outcome)

SpecIngest == InitIngest /\ [][NextIngest]_vars

\* ---------------------------------------------------------------------
\* Task.CanBeExecuted looked at alone
\* ---------------------------------------------------------------------

MaxDeps == 2

DepIDs == {"d1", "d2"}

DependencyLists == UNION {[1..n -> DepIDs] : n \in 0..MaxDeps}

\* the map[string]bool arguments: some IDs present, each true or false
CompletedMaps == UNION {[D -> BOOLEAN] : D \in SUBSET DepIDs}

\* completedTaskIDs[depID]: false for a key that is absent
MapLookup(m, k) == IF k \in DOMAIN m THEN m[k] ELSE FALSE

\* the IDs the map holds as completed
CompletedSet(m) == {k \in DepIDs : MapLookup(m, k)}

InitDeps ==
  /\ cfg = <<>> /\ status = <<>> /\ metaRetry = <<>> /\ taskQueue = <<>>
  /\ runningTasks = {} /\ cronJobs = {} /\ cronEngine = <<>> /\ cronFires = <<>>
  /\ addPc = <<>> /\ pollSnap = {} /\ pollCur = <<NoTask, "idle">>
  /\ cronPc = <<>> /\ execs = <<>> /\ supSnap = {} /\ supCur = NoTask
  /\ sleepers = <<>> /\ attempts = <<>> /\ timeouts = <<>> /\ requeues = <<>>
  /\ cycle = <<>> /\ hx = HOff /\ stop = NotStopped
  /\ conf = ConfOff
  /\ call \in {[fn |-> "task", Dependencies |-> d, completedTaskIDs |-> m,
                result |-> FALSE] :
                 d \in DependencyLists, m \in CompletedMaps}

\* t.CanBeExecuted(completedTaskIDs)
CanBeExecutedCall ==
  /\ call.fn = "task"
  /\ call' = [call EXCEPT !.fn = "CanBeExecuted",
                !.result = CanBeExecuted([Dependencies |-> call.Dependencies],
                                         CompletedSet(call.completedTaskIDs))]
  /\ UNCHANGED <<cfg, storeVars, schedVars, procVars, histVars, cycle, hx, stop, conf>>

NextDeps == CanBeExecutedCall

SpecDeps == InitDeps /\ [][NextDeps]_vars

\* ---------------------------------------------------------------------
\* InMemoryTaskRepository looked at alone: r.tasks and one call after
\* another (every method holds r.mu from start to end)
\* ---------------------------------------------------------------------

RepoIDs == {"a", "b", "c"}

\* what distinguishes two task values stored under one ID
TaskValues == {"v1", "v2"}

ErrTaskNotFound == "task not found"
NoError == "nil"

\* an UpdateTask that stores the task whether or not its ID is known
UpdateTaskUpsert(tasks, id, v) ==
  [tasks |-> [k \in DOMAIN tasks \cup {id} |-> IF k = id THEN v ELSE tasks[k]],
   err |-> NoError]

\* InMemoryTaskRepository.UpdateTask
UpdateTask(tasks, id, v) ==
  IF id \notin DOMAIN tasks
  THEN [tasks |-> tasks, err |-> ErrTaskNotFound]
  ELSE [tasks |-> [tasks EXCEPT ![id] = v], err |-> NoError]

\* InMemoryTaskRepository.DeleteTask
DeleteTask(tasks, id) ==
  IF id \notin DOMAIN tasks
  THEN [tasks |-> tasks, err |-> ErrTaskNotFound]
  ELSE [tasks |-> [k \in DOMAIN tasks \ {id} |-> tasks[k]], err |-> NoError]

\* InMemoryTaskRepository.GetTaskByID
GetTaskByID(tasks, id) ==
  IF id \notin DOMAIN tasks
  THEN [tasks |-> tasks, err |-> ErrTaskNotFound]
  ELSE [tasks |-> tasks, err |-> NoError]

\* InMemoryTaskRepository.AddTask with a given ID: r.tasks[task.ID] = task
RepoAddTask(tasks, id, v) ==
  [tasks |-> [k \in DOMAIN tasks \cup {id} |-> IF k = id THEN v ELSE tasks[k]],
   err |-> NoError]

InitRepo ==
  /\ cfg = <<>> /\ status = <<>> /\ metaRetry = <<>> /\ taskQueue = <<>>
  /\ runningTasks = {} /\ cronJobs = {} /\ cronEngine = <<>> /\ cronFires = <<>>
  /\ addPc = <<>> /\ pollSnap = {} /\ pollCur = <<NoTask, "idle">>
  /\ cronPc = <<>> /\ execs = <<>> /\ supSnap = {} /\ supCur = NoTask
  /\ sleepers = <<>> /\ attempts = <<>> /\ timeouts = <<>> /\ requeues = <<>>
  /\ cycle = <<>> /\ hx = HOff /\ stop = NotStopped
  /\ conf = ConfOff
  /\ call = [fn |-> "repository", tasks |-> <<>>, op |-> "new", id |-> "",
             err |-> NoError]

\* the call's effect on r.tasks and its error result
Returned(op, id, r) ==
  [call EXCEPT !.tasks = r.tasks, !.op = op, !.id = id, !.err = r.err]

RepoAddTaskCall(id, v) ==
  /\ call.fn = "repository"
  /\ call' = Returned("AddTask", id, RepoAddTask(call.tasks, id, v))
  /\ UNCHANGED <<cfg, storeVars, schedVars, procVars, histVars, cycle, hx, stop, conf>>

GetTaskByIDCall(id) ==
  /\ call.fn = "repository"
  /\ call' = Returned("GetTaskByID", id, GetTaskByID(call.tasks, id))
  /\ UNCHANGED <<cfg, storeVars, schedVars, procVars, histVars, cycle, hx, stop, conf>>

UpdateTaskCall(id, v) ==
  /\ call.fn = "repository"
  /\ call' = Returned("UpdateTask", id, UpdateTask(call.tasks, id, v))
  /\ UNCHANGED <<cfg, storeVars, schedVars, procVars, histVars, cycle, hx, stop, conf>>

DeleteTaskCall(id) ==
  /\ call.fn = "repository"
  /\ call' = Returned("DeleteTask", id, DeleteTask(call.tasks, id))
  /\ UNCHANGED <<cfg, storeVars, schedVars, procVars, histVars, cycle, hx, stop, conf>>

NextRepo ==
  \/ \E id \in RepoIDs, v \in TaskValues : RepoAddTaskCall(id, v)
  \/ \E id \in RepoIDs : GetTaskByIDCall(id)
  \/ \E id \in RepoIDs, v \in TaskValues : UpdateTaskCall(id, v)
  \/ \E id \in RepoIDs : DeleteTaskCall(id)

SpecRepo == InitRepo /\ [][NextRepo]_vars

-----------------------------------------------------------------------------
(* InMemoryTaskRepository: the queries by tag.  A result is the number of   *)
(* times each stored task stands in the returned slice; the order of the   *)
(* slice is the iteration order of the map.                                *)

TaggedIDs == {"p", "q"}
TaggedStatuses == {StatusPending, StatusDone}

\* the stores: per ID the Status and the Tags of the task
TaggedStores == [TaggedIDs -> [Status : TaggedStatuses, Tags : TagLists]]

\* the inner loop: some tag of the task equals wantTag
HasTag(task, wantTag) == \E j \in 1..Len(task.Tags) : task.Tags[j] = wantTag

\* InMemoryTaskRepository.GetTasksByTags: one append per wantTag that the
\* task carries (the break leaves the inner loop only)
GetTasksByTags(tasks, tags) ==
  [id \in DOMAIN tasks |->
     Cardinality({i \in 1..Len(tags) : HasTag(tasks[id], tags[i])})]

\* InMemoryTaskRepository.GetTasksByStatusAndTags: hasTag, then one append
GetTasksByStatusAndTags(tasks, st, tags) ==
  [id \in DOMAIN tasks |->
     IF tasks[id].Status = st /\ \E i \in 1..Len(tags) : HasTag(tasks[id], tags[i])
     THEN 1 ELSE 0]

InitTags ==
  /\ cfg = <<>> /\ status = <<>> /\ metaRetry = <<>> /\ taskQueue = <<>>
  /\ runningTasks = {} /\ cronJobs = {} /\ cronEngine = <<>> /\ cronFires = <<>>
  /\ addPc = <<>> /\ pollSnap = {} /\ pollCur = <<NoTask, "idle">>
  /\ cronPc = <<>> /\ execs = <<>> /\ supSnap = {} /\ supCur = NoTask
  /\ sleepers = <<>> /\ attempts = <<>> /\ timeouts = <<>> /\ requeues = <<>>
  /\ cycle = <<>> /\ hx = HOff /\ stop = NotStopped
  /\ conf = ConfOff
  /\ call \in {[fn |-> "tags", tasks |-> store, op |-> "new", tags |-> <<>>,
                result |-> [id \in TaggedIDs |-> 0]] : store \in TaggedStores}

GetTasksByTagsCall(tags) ==
  /\ call.fn = "tags"
  /\ call' = [call EXCEPT !.op = "GetTasksByTags", !.tags = tags,
                          !.result = GetTasksByTags(call.tasks, tags)]
  /\ UNCHANGED <<cfg, storeVars, schedVars, procVars, histVars, cycle, hx, stop, conf>>

GetTasksByStatusAndTagsCall(st, tags) ==
  /\ call.fn = "tags"
  /\ call' = [call EXCEPT !.op = "GetTasksByStatusAndTags", !.tags = tags,
                          !.result = GetTasksByStatusAndTags(call.tasks, st, tags)]
  /\ UNCHANGED <<cfg, storeVars, schedVars, procVars, histVars, cycle, hx, stop, conf>>

NextTags ==
  \/ \E tags \in TagLists : GetTasksByTagsCall(tags)
  \/ \E st \in TaggedStatuses, tags \in TagLists : GetTasksByStatusAndTagsCall(st, tags)

SpecTags == InitTags /\ [][NextTags]_vars

-----------------------------------------------------------------------------
(* Properties of the scheduler *)

RECURSIVE SumOver(_, _)
SumOver(f, S) ==
  IF S = {} THEN 0
  ELSE LET x == CHOOSE y \in S : TRUE IN f[x] + SumOver(f, S \ {x})

\* executeTask goroutines started by processTaskQueue that have not returned
TotalInFlight == SumOver([t \in DOMAIN execs |-> InFlight(t)], DOMAIN execs)

\* C1: at every instant the number of executions in flight (launched by
\* processTaskQueue, not yet returned from executeTask) is at most
\* maxConcurrency
C1_InFlightAtMostMaxConcurrency == TotalInFlight <= MaxConcurrency

DepsDone(t, st) ==
  \A i \in 1..Len(cfg[t].Dependencies) : st[cfg[t].Dependencies[i]] = StatusDone

\* C2: whenever a task with dependencies is marked RUNNING, every task of
\* its dependency list has status DONE in the store at that moment
C2_RunningOnlyWithDependenciesDone ==
  [][\A t \in Tasks :
       (status[t] # StatusRunning /\ status'[t] = StatusRunning
          /\ Len(cfg[t].Dependencies) > 0)
       => DepsDone(t, status)]_vars

\* the transitions of the status state machine
StateMachine ==
  { <<StatusPending, StatusQueued>>,   <<StatusPending, StatusScheduled>>,
    <<StatusScheduled, StatusQueued>>, <<StatusQueued, StatusRunning>>,
    <<StatusRunning, StatusDone>>,     <<StatusRunning, StatusFailed>>,
    <<StatusRunning, StatusRetry>>,    <<StatusRunning, StatusTimeout>>,
    <<StatusTimeout, StatusRetry>>,    <<StatusTimeout, StatusFailed>>,
    <<StatusRetry, StatusQueued>>,     <<StatusScheduled, StatusFailed>> }

\* C3: every change of the status of a stored task is a transition of the
\* state machine
C3_OnlyStateMachineTransitions ==
  [][\A t \in Tasks :
       (status[t] # NotStored /\ status'[t] # status[t])
       => <<status[t], status'[t]>> \in StateMachine]_vars

\* C4: a task registered with a cron expression never has two executions in
\* flight and never two entries in the queue
C4_CronTaskNeverDuplicated ==
  \A t \in cronJobs : InFlight(t) <= 1 /\ Count(taskQueue, t) <= 1

\* C10: once a task without a cron expression is DONE or FAILED, its status
\* never changes again
C10_TerminalStatusIsFinal ==
  [][\A t \in Tasks :
       (~IsCronTask(cfg[t]) /\ status[t] \in {StatusDone, StatusFailed})
       => status'[t] = status[t]]_vars

\* the order of the claim: HIGH before MEDIUM before LOW, and within one
\* priority the order in which the tasks entered the queue
Rank(t) ==
  CASE cfg[t].Priority = PriorityHigh   -> 1
    [] cfg[t].Priority = PriorityMedium -> 2
    [] cfg[t].Priority = PriorityLow    -> 3

Arrival(t) == CHOOSE i \in 1..Len(CycleOrder) : CycleOrder[i] = t

Precedes(a, b) ==
  Rank(a) < Rank(b) \/ (Rank(a) = Rank(b) /\ Arrival(a) < Arrival(b))

DependencySatisfied(t) == CanBeExecuted(cfg[t], GetCompletedTaskIDs(status))

\* C5: the tasks one processTaskQueue cycle launches are launched in the order
\* HIGH, MEDIUM, LOW, equal priorities in the order of their entry into the
\* queue, and no launched task is preceded in that order by a task the cycle
\* retains although its dependencies are satisfied
C5_LaunchInPriorityOrder ==
  cycle.ran =>
    /\ \A i, j \in 1..Len(cycle.launched) :
         i < j => Precedes(cycle.launched[i], cycle.launched[j])
    /\ \A a \in Range(cycle.remaining), b \in Range(cycle.launched) :
         DependencySatisfied(a) => Precedes(b, a)

\* [LOW, HIGH, MEDIUM, HIGH] without dependencies and two slots: the two HIGH
\* tasks are launched in their order of entry, MEDIUM and LOW are retained
C5_Witness ==
  /\ cycle.ran
  /\ cycle.max = 2
  /\ cycle.before = CycleOrder
  /\ [t \in CycleTasks |-> cfg[t].Priority]
       = [c1 |-> PriorityLow, c2 |-> PriorityHigh, c3 |-> PriorityMedium,
          c4 |-> PriorityHigh]
  /\ \A t \in CycleTasks : cfg[t].Dependencies = <<>>
  /\ cycle.launched = <<"c2", "c4">>
  /\ cycle.remaining = <<"c3", "c1">>

\* nothing is pending for the task any more
Quiescent(t) ==
  /\ addPc[t] = "done"
  /\ t \notin pollSnap /\ pollCur[1] # t
  /\ t \notin Range(taskQueue)
  /\ InFlight(t) = 0
  /\ t \notin supSnap /\ supCur # t
  /\ sleepers[t]["sleeping"] = 0 /\ sleepers[t]["append"] = 0

\* C6: a task with a retry policy of max_retries = n whose attempts all fail
\* (every launched execution is timed out by the supervisor; every call of
\* the handler returns an error) has been attempted n+1 times and is FAILED
\* when nothing more can happen to it
C6_FailingTaskAttemptedNPlusOneTimes ==
  /\ \A t \in Tasks :
       (cfg[t].HasRetryPolicy /\ Quiescent(t) /\ attempts[t] >= 1
          /\ timeouts[t] = attempts[t])
       => (attempts[t] = cfg[t].MaxRetries + 1 /\ status[t] = StatusFailed)
  /\ (hx.task.HasRetryPolicy /\ hx.pc = "idle" /\ hx.failures = hx.calls
        /\ ~Executable(hx.task.Status))
     => (hx.calls = hx.task.MaxRetries + 1 /\ hx.task.Status = StatusFailed)

\* C7: for a task with a retry policy the supervisor's retry_count, the
\* number of retry goroutines started for it and the executor's RetryCount
\* never exceed MaxRetries
C7_RetryCountWithinMaxRetries ==
  /\ \A t \in Tasks :
       cfg[t].HasRetryPolicy =>
         (metaRetry[t] <= cfg[t].MaxRetries /\ requeues[t] <= cfg[t].MaxRetries)
  /\ hx.task.HasRetryPolicy => hx.task.RetryCount <= hx.task.MaxRetries

\* both counters at the limit: all retries used on both paths
C7_Witness ==
  /\ \E t \in Tasks :
       /\ cfg[t].HasRetryPolicy /\ cfg[t].MaxRetries = RetryLimit
       /\ metaRetry[t] = RetryLimit /\ requeues[t] = RetryLimit
       /\ timeouts[t] = RetryLimit + 1
  /\ hx.task.HasRetryPolicy /\ hx.task.MaxRetries = RetryLimit
  /\ hx.task.RetryCount = RetryLimit /\ hx.task.Status = StatusFailed

\* C8: a task without a retry policy never has status RETRY and no retry
\* goroutine is ever started for it; the supervisor's pass over it ends with
\* FAILED, and a handler error leaves it FAILED with RetryCount unchanged
C8_NoPolicyNoRetry ==
  /\ [](\A t \in Tasks :
          (cfg[t] # Absent /\ ~cfg[t].HasRetryPolicy) =>
            /\ status[t] # StatusRetry
            /\ metaRetry[t] = 0 /\ requeues[t] = 0
            /\ sleepers[t]["sleeping"] = 0 /\ sleepers[t]["append"] = 0)
  /\ [](~hx.task.HasRetryPolicy =>
          /\ hx.task.Status # StatusRetry
          /\ hx.task.RetryCount = 0
          /\ (hx.failures > 0 => hx.task.Status = StatusFailed))
  /\ [][\A t \in Tasks :
          (~cfg[t].HasRetryPolicy /\ supCur = t /\ supCur' # t)
          => status'[t] = StatusFailed]_vars

\* a task without a policy that timed out and one whose handler failed
C8_Witness ==
  /\ \E t \in Tasks :
       /\ cfg[t] # Absent /\ ~cfg[t].HasRetryPolicy
       /\ timeouts[t] = 1 /\ supCur = NoTask /\ status[t] = StatusFailed
  /\ ~hx.task.HasRetryPolicy /\ hx.failures = 1 /\ hx.task.Status = StatusFailed

\* C9: the supervisor's pass over a timed-out task writes TIMEOUT; when the
\* task has a retry policy and retry_count < MaxRetries it then writes RETRY
\* (not FAILED) and starts the retry goroutine, which writes QUEUED when its
\* sleep is over
C9_TimeoutThenRetryThenQueued ==
  [][\A t \in Tasks :
       /\ (supCur = NoTask /\ supCur' = t) => status'[t] = StatusTimeout
       /\ (supCur = t /\ supCur' = NoTask /\ cfg[t].HasRetryPolicy
             /\ metaRetry[t] < cfg[t].MaxRetries)
          => /\ status'[t] = StatusRetry
             /\ sleepers'[t]["sleeping"] = sleepers[t]["sleeping"] + 1
       /\ sleepers'[t]["sleeping"] < sleepers[t]["sleeping"]
          => status'[t] = StatusQueued]_vars

\* the retry goroutine of a timed-out task has just written QUEUED
C9_Witness ==
  \E t \in Tasks :
    /\ timeouts[t] = 1 /\ metaRetry[t] = 1 /\ requeues[t] = 1
    /\ sleepers[t]["append"] = 1
    /\ status[t] = StatusQueued

\* C11: every entry of a task into RETRY, by the supervisor or by the
\* handler-based executor, starts exactly one re-enqueue and the task becomes
\* QUEUED again.  The task of the handler-based executor has no timeout and
\* no cron expression and is past PENDING, so that no step of the scheduler
\* applies to it: its status is hx.task.Status
C11_RetryFollowedByOneReenqueue ==
  /\ [][\A t \in Tasks :
          (status[t] # StatusRetry /\ status'[t] = StatusRetry)
          => sleepers'[t]["sleeping"] = sleepers[t]["sleeping"] + 1]_vars
  /\ \A t \in Tasks : [](status[t] = StatusRetry => <>(status[t] = StatusQueued))
  /\ [](hx.task.Status = StatusRetry => <>(hx.task.Status = StatusQueued))

\* C12: however often and from whichever goroutines addScheduledJob is called
\* for a task with a cron expression the engine accepts, the task has at most
\* one entry in s.cron, cronJobs holds its ID exactly when it has one, and it
\* has one once a call has returned
C12_OneCronEntryPerTask ==
  \A t \in Tasks :
    /\ cronEngine[t].entries <= 1
    /\ t \in cronJobs <=> cronEngine[t].entries = 1
    /\ (IsCronTask(cfg[t]) /\ cfg[t].CronExpr = CronValid /\ addPc[t] = "done")
       => cronEngine[t].entries = 1

\* AddTask and the poll loop have both called addScheduledJob for the task
C12_Witness ==
  \E t \in Tasks :
    /\ cronEngine[t].calls = 2 /\ cronEngine[t].entries = 1
    /\ addPc[t] = "done" /\ pollCur = <<NoTask, "idle">>

\* the step with which the AddTask call for t returns nil
AddTaskReturns(t) == addPc[t] # "done" /\ addPc'[t] = "done"

\* what the call leaves for an IMMEDIATE task
ImmediatePost(t) ==
  \/ status'[t] = StatusQueued /\ Count(taskQueue', t) = 1
  \/ attempts'[t] >= 1

\* when s.repo.AddTask fails, the store, the queue and the cron table are as
\* they were
ErrorPost(t) ==
  (addPc[t] = "new" /\ addPc'[t] = "error")
  => UNCHANGED <<status, taskQueue, cronJobs, cronEngine>>

C14_NoTimeoutWithoutTimeoutSeconds ==
  /\ [](\A t \in Tasks :
          (cfg[t] # Absent /\ cfg[t].TimeoutSeconds = 0)
          => (status[t] # StatusTimeout /\ timeouts[t] = 0 /\ supCur # t))
  /\ [][\A t \in Tasks :
          (cfg[t].TimeoutSeconds = 0 /\ t \in supSnap /\ t \notin supSnap')
          => UNCHANGED <<status, metaRetry, sleepers>>]_vars

\* the supervisor's snapshot holds a RUNNING task without a timeout, in a
\* pass in which it has timed out the other task
C14_Witness ==
  \E t \in Tasks :
    /\ cfg[t].TimeoutSeconds = 0 /\ status[t] = StatusRunning
    /\ supSnap = {t} /\ supCur = NoTask
    /\ \E u \in Tasks \ {t} : timeouts[u] >= 1

RECURSIVE Pow(_, _)
Pow(b, n) == IF n = 0 THEN 1 ELSE b * Pow(b, n - 1)

\* C15: the delay before the re-enqueue is
\* retry_delay * backoff_factor^retry_count
C15_DelayIsExponential ==
  call.fn \in {"supervisor", "executor"}
  => call.delay = call.RetryDelay * Pow(call.BackoffFactor, call.retryCount)

\* the step with which an execution of t passes the start of
\* TaskExecutor.ExecuteTask(taskID)
ExecutionStarts(t) == execs'[t]["running"] = execs[t]["running"] + 1

\* C16: ExecuteTask on a task that is RUNNING, DONE or FAILED reports an
\* error, runs no handler and leaves the stored task as it is, in the
\* handler-based executor and in the executor the scheduler calls
C16_NotExecutableLeftUnchanged ==
  [][/\ (hx.pc = "idle" /\ ~Executable(hx.task.Status) /\ hx' # hx)
        => (hx'.task = hx.task /\ hx'.calls = hx.calls /\ hx'.errors)
     /\ \A t \in Tasks :
          (ExecutionStarts(t)
             /\ status[t] \in {StatusRunning, StatusDone, StatusFailed})
          => status'[t] = status[t]]_vars

\* C17: a handler failure in ExecuteTask ends in RETRY with retry_count one
\* higher and next_run_at set when the retry policy allows a retry, and in
\* FAILED with retry_count unchanged otherwise; the task is never DONE, the
\* error is in the task's result and the call returns nil
C17_HandlerFailureOutcome ==
  [][(hx.pc = "running" /\ hx'.pc = "idle"
        /\ hx'.failures = hx.failures + 1)
     => /\ IF hx.task.HasRetryPolicy
              /\ hx.task.RetryCount < hx.task.MaxRetries
           THEN /\ hx'.task.Status = StatusRetry
                /\ hx'.task.RetryCount = hx.task.RetryCount + 1
                /\ hx'.task.NextRunAtSet
           ELSE /\ hx'.task.Status = StatusFailed
                /\ hx'.task.RetryCount = hx.task.RetryCount
        /\ hx'.task.Status # StatusDone
        /\ hx'.task.Result = "Error"
        /\ hx'.returned = "nil"]_vars

\* the handler failed with retries left and again with none left
C17_Witness ==
  /\ hx.pc = "idle" /\ hx.failures = 2 /\ hx.returned = "nil"
  /\ hx.task.HasRetryPolicy /\ hx.task.MaxRetries = 1
  /\ hx.task.RetryCount = 1 /\ hx.task.Status = StatusFailed
  /\ hx.task.Result = "Error"

\* tag lists that are permutations of each other
IsPermutation(ta, tb) ==
  /\ Len(ta) = Len(tb)
  /\ \A x \in TagNames :
       Cardinality({i \in 1..Len(ta) : ta[i] = x})
         = Cardinality({i \in 1..Len(tb) : tb[i] = x})

\* C18: two tasks whose tag lists are permutations of each other get the same
\* handler, whatever the registry
C18_HandlerIndependentOfTagOrder ==
  (call.fn = "route" /\ call.handler[1] # "unset" /\ call.handler[2] # "unset"
     /\ IsPermutation(call.tags[1], call.tags[2]))
  => call.handler[1] = call.handler[2]

\* C19: no task an event processor's ProcessEvent returns is SCHEDULED with
\* an empty cron expression
C19_ScheduledHasCronExpr ==
  (call.fn \in {"PostedMessageProcessor", "UserAddedProcessor"} /\ ~call.err)
  => ~(call.task.TaskType = TypeScheduled /\ call.task.CronExpr = CronNone)

\* C20: an execution in flight when Stop is called runs to completion after
\* Stop, also after Stop has returned, and its end still writes the task's
\* status to the store
C20_DispatchedTaskSurvivesStop ==
  /\ \A t \in Tasks :
       (t \in stop.atCall \cup stop.atReturn /\ InFlight(t) > 0)
         ~> (InFlight(t) = 0)
  /\ [][\A t \in Tasks :
          (stop.pc # "no"
             /\ execs'[t]["finished"] = execs[t]["finished"] + 1)
          => status'[t] = StatusDone]_vars

\* the one execution of t1 was in flight when Stop returned and has ended
\* since, its DONE in the store
C20_Witness ==
  /\ stop.pc = "returned" /\ "t1" \in stop.atReturn
  /\ attempts["t1"] = 1 /\ timeouts["t1"] = 0
  /\ InFlight("t1") = 0 /\ status["t1"] = StatusDone

\* C21: once Stop has returned no task is dispatched from the ready queue,
\* no poll pass and no timeout check starts or continues, and no sleeping
\* retry appends its task to the ready queue
C21_NothingRunsAfterStop ==
  [][stop.pc = "returned"
     => /\ attempts' = attempts
        /\ pollSnap' = pollSnap /\ pollCur' = pollCur
        /\ supSnap' = supSnap /\ supCur' = supCur /\ timeouts' = timeouts
        /\ \A t \in Tasks :
             sleepers'[t]["append"] >= sleepers[t]["append"]]_vars

\* the refreshes that have run to their end
Completed(c) == IF c.pc = "fetched" THEN c.now - 1 ELSE c.now

\* the last completed refresh whose fetch returned no error (0: none)
LastOk(c) ==
  LET S == {i \in 1..Completed(c) : c.history[i].ok} IN
  IF S = {} THEN 0 ELSE CHOOSE i \in S : \A j \in S : j <= i

\* the list that refresh fetched
ListOf(c, i) == IF i = 0 THEN <<>> ELSE c.history[i].list

\* a step in which r returns from GetCurrentConfigurations
Gets(r) == ~conf.returned[r] /\ conf'.returned[r]

\* C22: the snapshot is exactly the list of the last successful refresh and
\* the timestamp is that refresh's, both at once in every state a reader
\* can see, and GetCurrentConfigurations returns exactly the snapshot
C22_SnapshotReplacedAtomically ==
  /\ [](conf.lastUpdateTime = LastOk(conf)
          /\ Contents(conf, conf.configurations) = ListOf(conf, LastOk(conf)))
  /\ [][\A r \in Readers :
          Gets(r) => Contents(conf', conf'.readers[r])
                       = ListOf(conf, LastOk(conf))]_vars

\* two refreshes fetched different non-empty lists and r1, called after the
\* second, got the second list
C22_Witness ==
  /\ conf.op = "get" /\ conf.pc = "idle" /\ conf.now = 2
  /\ conf.history[1].ok /\ conf.history[2].ok
  /\ conf.history[1].list # <<>> /\ conf.history[2].list # <<>>
  /\ conf.history[1].list # conf.history[2].list
  /\ conf.returned["r1"] /\ ~conf.returned["r2"]
  /\ Contents(conf, conf.readers["r1"]) = conf.history[2].list

\* C23: a refresh whose fetch fails changes neither the snapshot nor the
\* timestamp, and a GetCurrentConfigurations after it returns the list
\* loaded before
C23_FetchErrorKeepsSnapshot ==
  [][/\ (conf.pc = "fetched" /\ conf.err /\ conf'.pc = "idle")
          => /\ conf'.configurations = conf.configurations
             /\ Contents(conf', conf'.configurations)
                  = Contents(conf, conf.configurations)
             /\ conf'.lastUpdateTime = conf.lastUpdateTime
     /\ \A r \in Readers :
          (Gets(r) /\ conf.pc = "idle" /\ conf.now >= 1
             /\ ~conf.history[conf.now].ok)
          => /\ Contents(conf', conf'.readers[r]) = ListOf(conf, LastOk(conf))
             /\ conf.lastUpdateTime = LastOk(conf)]_vars

\* the first refresh loaded a non-empty list, the second failed, and r1,
\* called after the failure, got the first list
C23_Witness ==
  /\ conf.op = "get" /\ conf.pc = "idle" /\ conf.now = 2
  /\ conf.history[1].ok /\ conf.history[1].list # <<>>
  /\ ~conf.history[2].ok
  /\ conf.lastUpdateTime = 1
  /\ conf.returned["r1"] /\ ~conf.returned["r2"]
  /\ Contents(conf, conf.readers["r1"]) = conf.history[1].list

\* C24: a refresh whose fetch returns an empty list without error leaves a
\* non-empty snapshot as it is
C24_EmptyFetchKeepsSnapshot ==
  [][(conf.pc = "fetched" /\ ~conf.err /\ conf.fetched.len = 0
        /\ conf.configurations.len > 0 /\ conf'.pc = "idle")
     => Contents(conf', conf'.configurations)
          = Contents(conf, conf.configurations)]_vars

\* C25: a caller's change to the slice it got changes neither the snapshot
\* nor the slice of the other caller
C25_ReturnedSliceIsACopy ==
  [][conf'.mutations = conf.mutations + 1
     => /\ Contents(conf', conf'.configurations)
             = Contents(conf, conf.configurations)
        /\ conf'.configurations = conf.configurations
        /\ Cardinality({r \in Readers :
                          Contents(conf', conf'.readers[r])
                            # Contents(conf, conf.readers[r])}) <= 1]_vars

\* both callers got the loaded list, a second refresh is between its fetch
\* and its write, and r1 has changed its slice
C25_Witness ==
  /\ conf.op = "mutate" /\ conf.pc = "fetched" /\ conf.now = 2
  /\ conf.lastUpdateTime = 1 /\ conf.history[1].list # <<>>
  /\ conf.returned["r1"] /\ conf.returned["r2"]
  /\ Contents(conf, conf.readers["r2"]) = conf.history[1].list
  /\ Contents(conf, conf.configurations) = conf.history[1].list
  /\ Contents(conf, conf.readers["r1"]) # conf.history[1].list
  /\ Len(Contents(conf, conf.readers["r1"])) = Len(conf.history[1].list)

\* C26: HandleEvent forwards an event exactly when no filter is registered
\* or some registered filter accepts it; a forwarded event reaches every
\* registered handler once, in registration order, a rejected one reaches none
C26_ForwardedIffSomeFilterAccepts ==
  /\ [](call.verdict # "none"
          => /\ (call.verdict = "accepted")
                  <=> (call.checked = <<>>
                         \/ \E i \in 1..Len(call.checked) :
                              ShouldProcess(call.checked[i], call.event))
             /\ call.verdict = "rejected"
                  => (call.pc = "idle" /\ call.delivered = <<>>))
  /\ [][/\ (call.pc = "idle" /\ call'.pc = "dispatch")
             => call'.checked = call.filters
        /\ (call.pc = "dispatch" /\ call'.pc = "idle")
             => (call'.verdict = "accepted"
                   /\ call'.delivered = call.handlers)]_vars

\* with a rejecting and then an accepting filter registered, an event has
\* reached two handlers in registration order
C26_Witness ==
  /\ call.fn = "EventListener" /\ call.pc = "idle"
  /\ call.verdict = "accepted"
  /\ Len(call.checked) = 2
  /\ ~ShouldProcess(call.checked[1], call.event)
  /\ ShouldProcess(call.checked[2], call.event)
  /\ call.delivered = <<"e2", "e1">>

\* the loaded configurations with the event's channel and with the event's
\* type or no type
MatchSet(c) ==
  {i \in 1..Len(c.loaded) :
     /\ c.loaded[i].ChannelID = c.event.Channel
     /\ c.loaded[i].MessageType \in {c.event.Type, ""}}

C28_CanBeExecutedIffAllDependenciesDone ==
  call.fn = "CanBeExecuted"
  => /\ call.result
          <=> \A i \in 1..Len(call.Dependencies) :
                /\ call.Dependencies[i] \in DOMAIN call.completedTaskIDs
                /\ call.completedTaskIDs[call.Dependencies[i]]
     /\ call.Dependencies = <<>> => call.result

\* a task with two dependencies, both completed, can be executed
C28_Witness ==
  /\ call.fn = "CanBeExecuted" /\ call.result
  /\ call.Dependencies = <<"d1", "d2">>

\* C29: GetTaskByID, UpdateTask and DeleteTask with an ID that is not in
\* the store return the NotFound error and leave the store as it is
C29_UnknownIDIsNotFound ==
  [][(call.fn = "repository"
        /\ call'.op \in {"GetTaskByID", "UpdateTask", "DeleteTask"}
        /\ call'.id \notin DOMAIN call.tasks)
     => (call'.err = ErrTaskNotFound /\ call'.tasks = call.tasks)]_vars

\* with only b stored, UpdateTask for a has failed and b is as it was
C29_Witness ==
  /\ call.fn = "repository" /\ call.op = "UpdateTask" /\ call.id = "a"
  /\ call.err = ErrTaskNotFound
  /\ DOMAIN call.tasks = {"b"}

\* C30: one processTaskQueue cycle launches at most maxConcurrency minus the
\* size of the running set it reads, and nothing when that is not positive
C30_CycleLaunchesAtMostAvailableSlots ==
  [][LET slots == MaxConcurrency - Cardinality(runningTasks)
         launched == SumOver([t \in Tasks |-> attempts'[t] - attempts[t]], Tasks)
     IN  /\ launched <= IF slots > 0 THEN slots ELSE 0
         /\ slots <= 0 => launched = 0]_vars

\* a cycle has launched a task, and the queue holds a task again while the
\* running set is as large as maxConcurrency
C30_Witness ==
  /\ taskQueue # <<>>
  /\ Cardinality(runningTasks) >= MaxConcurrency
  /\ \E t \in Tasks : attempts[t] >= 1

\* C31: in every reachable state a task ID is in the running set exactly
\* when an execution of that task is in flight (launched by processTaskQueue
\* and not yet finished), so the size of the set is the number of executions
\* in flight
C31_RunningSetIsInFlightSet ==
  /\ \A t \in Tasks : t \in runningTasks <=> InFlight(t) > 0
  /\ Cardinality(runningTasks) = TotalInFlight

\* C32: every task in the queue at the start of a processTaskQueue cycle is,
\* at the end of the cycle, either launched once and out of the queue while
\* its execution is still in flight, or retained in the queue exactly once;
\* nothing else is launched or retained, and the retained tasks stand in
\* priority order, equal priorities in their order of entry
C32_CycleLaunchesOrRetainsEachTask ==
  cycle.ran =>
    /\ \A t \in CycleTasks :
         Count(cycle.launched, t) + Count(cycle.remaining, t)
           = Count(cycle.before, t)
    /\ \A t \in Range(cycle.before) : Count(cycle.before, t) = 1
    /\ \A t \in Range(cycle.launched) :
         t \notin Range(taskQueue) /\ InFlight(t) > 0
    /\ \A t \in Range(cycle.remaining) : Count(taskQueue, t) = 1
    /\ \A i, j \in 1..Len(cycle.remaining) :
         i < j => Precedes(cycle.remaining[i], cycle.remaining[j])

\* a cycle over three or more tasks that launches one and retains two, one of
\* them for its dependency and one for want of a slot, out of entry order
C32_Witness ==
  /\ cycle.ran
  /\ Len(cycle.launched) = 1
  /\ Len(cycle.remaining) >= 2
  /\ \E a \in Range(cycle.remaining) : ~DependencySatisfied(a)
  /\ \E b \in Range(cycle.remaining) :
       DependencySatisfied(b) /\ Arrival(b) < Arrival(cycle.remaining[1])

\* the tasks that have entered the queue so far
Arrived == {CycleOrder[i] : i \in 1..cycle.arrived}

\* C33: a queued task whose dependencies are not all DONE is retained and
\* takes no slot: a cycle launches only dependency-satisfied tasks, and it
\* retains a dependency-satisfied task only when it has launched as many
\* tasks as it had slots, wherever the blocked tasks stand in the queue; a
\* task whose dependency never becomes DONE stays in the queue, never launched
C33_BlockedTaskTakesNoSlot ==
  /\ cycle.ran =>
       /\ \A t \in Range(cycle.launched) : cfg[t].Dependencies = <<>>
       /\ (\E t \in Range(cycle.remaining) : DependencySatisfied(t))
            => Len(cycle.launched) = cycle.max
  /\ \A t \in Arrived :
       ~DependencySatisfied(t)
         => attempts[t] = 0 /\ InFlight(t) = 0 /\ Count(taskQueue, t) = 1

\* a cycle with one slot launches a task that stands behind a blocked task of
\* higher priority in the sorted queue, and the blocked task is retained
C33_Witness ==
  /\ cycle.ran
  /\ cycle.max = 1
  /\ Len(cycle.launched) = 1
  /\ \E a \in Range(cycle.remaining) :
       /\ ~DependencySatisfied(a)
       /\ Precedes(a, cycle.launched[1])
       /\ a \in Range(taskQueue)

\* the tasks the claim is about
Plain(t) ==
  /\ cfg[t].CronExpr = CronNone
  /\ cfg[t].Dependencies = <<>>
  /\ cfg[t].TimeoutSeconds = 0

Weight(p) == CASE p = PriorityHigh -> 1 [] p = PriorityMedium -> 2 [] OTHER -> 3

\* some other task has a higher priority
Outranked(t) ==
  \E u \in Tasks : Weight(cfg[u].Priority) < Weight(cfg[t].Priority)

AddFuncCalled(t) ==
  \/ addPc[t] = "addfunc" /\ addPc'[t] = "done"
  \/ pollCur = <<t, "addfunc">> /\ pollCur' = <<NoTask, "idle">>

\* C35: when registering a task's cron expression fails, the task is FAILED
\* as the registration returns, it has no entry in the cron table or in the
\* cron engine, and it is never in the queue and never executed
C35_FailedRegistrationLeavesNoTrace ==
  /\ [](\A t \in Tasks :
          cfg[t].CronExpr = CronBad
            => /\ t \notin cronJobs
               /\ cronEngine[t].entries = 0
               /\ t \notin Range(taskQueue)
               /\ attempts[t] = 0 /\ InFlight(t) = 0
               /\ status[t] \notin {StatusQueued, StatusRunning, StatusDone})
  /\ [][\A t \in Tasks :
          (cfg[t].CronExpr = CronBad /\ AddFuncCalled(t))
            => status'[t] = StatusFailed]_vars

\* the registration has failed and the task is FAILED while the task it
\* depends on is DONE and the queue has been worked on
C35_Witness ==
  /\ cfg["t2"].CronExpr = CronBad
  /\ cronEngine["t2"].calls >= 1
  /\ addPc["t2"] = "done"
  /\ status["t2"] = StatusFailed
  /\ status["t1"] = StatusDone
  /\ attempts["t1"] >= 1

\* C36: a task with no cron expression and no retry policy is executed at
\* most once, whatever the interleaving of AddTask, the poll loop and the
\* triggers of processTaskQueue
C36_PlainTaskExecutedAtMostOnce ==
  \A t \in Tasks :
    (cfg[t].CronExpr = CronNone /\ ~cfg[t].HasRetryPolicy) => attempts[t] <= 1

\* C37: the status of a task becomes TIMEOUT only from RUNNING, and a task
\* that is DONE is not set to TIMEOUT, RETRY or FAILED by checkTaskTimeouts
C37_TimeoutOnlyFromRunning ==
  [][\A t \in Tasks :
       /\ (status'[t] = StatusTimeout /\ status[t] # StatusTimeout)
            => status[t] = StatusRunning
       /\ (status[t] = StatusDone /\ status'[t] # StatusDone)
            => ~(supCur' = t \/ supCur = t)]_vars

\* C38: in every reachable state the queue holds at most one entry per task
\* ID, whatever the interleaving of AddTask, the poll loop, the cron
\* callbacks and the retry goroutines
C38_OneQueueEntryPerTask ==
  \A t \in Tasks : Count(taskQueue, t) <= 1

\* the task is in the queue, put there by AddTask and not yet dispatched,
\* and the poll's queueTask call for it stands at the locked section; the
\* cron task is in the queue as well
C38_Witness ==
  /\ Count(taskQueue, "t1") = 1
  /\ addPc["t1"] = "done"
  /\ attempts["t1"] = 0
  /\ pollCur = <<"t1", "append">>
  /\ Len(taskQueue) = 2

\* C39: AddTask of the store with an ID that is already present leaves the
\* stored task and the number of stored tasks as they were
C39_AddTaskKeepsStoredTask ==
  [][(call'.op = "AddTask" /\ call'.id \in DOMAIN call.tasks)
       => call'.tasks = call.tasks]_vars

\* C40: GetTasksByTags returns every stored task that carries at least one of
\* the given tags exactly once and no other task
C40_TaggedTaskReturnedOnce ==
  call.op = "GetTasksByTags" =>
    \A id \in TaggedIDs :
      call.result[id] =
        IF \E i \in 1..Len(call.tags) : HasTag(call.tasks[id], call.tags[i])
        THEN 1 ELSE 0

====
